---- MODULE Spec2Model ----
(***************************************************************************)
(* Agent-state storage subsystem: MemoryStorageBackend (byte store with    *)
(* TTL and size-bounded LRU eviction), MemoryStateStore (versioned,        *)
(* checksummed envelopes per (thread, agent) with merge-on-write and a     *)
(* per-thread agent limit) and StateStoreManager (lifecycle).              *)
(*                                                                         *)
(* Every `await backend.<op>` of the store is one step of the calling      *)
(* task; other tasks and the clock may move between two such steps.        *)
(* Time is an integer number of seconds; None is written None (-1) for     *)
(* timestamps and 0 for a ttl (`ttl_seconds or default` and                *)
(* `if effective_ttl:` treat None and 0 alike).                            *)
(***************************************************************************)
EXTENDS Integers, Sequences, FiniteSets, TLC

(* ------------------------------ bounds --------------------------------- *)

\* The clock runs from 0 to MaxTime.
MaxTime == 2

\* Raw backend values are 1..MaxValueLen bytes long.
MaxValueLen == 3

(* --------------------------- configuration ----------------------------- *)

\* max_size_bytes of the backend when tasks call the byte store directly.
RawMaxSizeBytes == 2

\* MemoryStateStore(max_states_per_thread=50)
DefaultMaxStatesPerThread == 50

None == -1

Procs == {1, 2}

RawKeys == {<<"k1">>, <<"k2">>}

RawContents == {"x", "y"}

\* ttl_seconds arguments of a raw set: omitted (0), 1 second or 2 seconds.
TtlArgs == {0, 1, 2}

\* default_ttl_seconds of the constructed backend: None (0) or 1 second.
DefaultTtls == {0, 1}

VARIABLES
    manager,            \* the StateStoreManager: its fields and the call each task makes on it
    now,                \* datetime.utcnow()
    default_ttl_seconds,\* MemoryStorageBackend.default_ttl_seconds
    max_size_bytes,     \* MemoryStorageBackend.max_size_bytes
    max_states_per_thread, \* MemoryStateStore.max_states_per_thread
    storage,            \* MemoryStorageBackend._storage : key -> bytes
    metadata,           \* MemoryStorageBackend._metadata : key -> {expires_at, size}
    access_times,       \* MemoryStorageBackend._access_times, in dict insertion order
    total_size_bytes,   \* MemoryStorageBackend._total_size_bytes
    lock,               \* MemoryStorageBackend._lock : holder, or 0
    pc,                 \* position of each task
    frame               \* arguments, locals and result of each task's call

vars == <<manager, now, default_ttl_seconds, max_size_bytes, max_states_per_thread, storage, metadata, access_times,
          total_size_bytes, lock, pc, frame>>

tables == <<storage, metadata, access_times, total_size_bytes>>

config == <<default_ttl_seconds, max_size_bytes, max_states_per_thread>>

(* ------------------------------ bytes ----------------------------------- *)

\* A raw byte string: its content and its length.
RawValue(c, n) == [kind |-> "raw", content |-> c, size |-> n]

RawValues == {RawValue(c, n) : c \in RawContents, n \in 1..MaxValueLen}

\* len(value)
ByteLen(v) == v.size

(* --------------------- MemoryStorageBackend tables ---------------------- *)

\* The backend's tables as one value B.
Tables == [storage |-> storage, metadata |-> metadata,
           access_times |-> access_times, total_size_bytes |-> total_size_bytes]

\* An empty dict.
EmptyDict == [k \in {} |-> 0]

EmptyTables == [storage |-> EmptyDict, metadata |-> EmptyDict,
                access_times |-> <<>>, total_size_bytes |-> 0]

Restrict(f, S) == [k \in S |-> f[k]]

RECURSIVE SeqWithout(_, _)
SeqWithout(s, key) ==
    IF s = <<>> THEN <<>>
    ELSE IF Head(s)[1] = key THEN SeqWithout(Tail(s), key)
    ELSE <<Head(s)>> \o SeqWithout(Tail(s), key)

\* dict[key] = t : an existing key keeps its place, a new key goes last.
DictSet(s, key, t) ==
    IF \E i \in 1..Len(s) : s[i][1] = key
    THEN [i \in 1..Len(s) |-> IF s[i][1] = key THEN <<key, t>> ELSE s[i]]
    ELSE Append(s, <<key, t>>)

DictKeys(s) == {s[i][1] : i \in 1..Len(s)}

\* A removal that leaves the size counter as it is.
RemoveKeyKeepsTotal(B, key) ==
    [storage |-> Restrict(B.storage, DOMAIN B.storage \ {key}),
     metadata |-> Restrict(B.metadata, DOMAIN B.metadata \ {key}),
     access_times |-> SeqWithout(B.access_times, key),
     total_size_bytes |-> B.total_size_bytes]

\* MemoryStorageBackend._remove_key_unsafe
RemoveKey(B, key) ==
    [storage |-> Restrict(B.storage, DOMAIN B.storage \ {key}),
     metadata |-> Restrict(B.metadata, DOMAIN B.metadata \ {key}),
     access_times |-> SeqWithout(B.access_times, key),
     total_size_bytes |->
        IF key \in DOMAIN B.storage
        THEN B.total_size_bytes - ByteLen(B.storage[key])
        ELSE B.total_size_bytes]

RECURSIVE RemoveKeys(_, _)
RemoveKeys(B, keys) ==
    IF keys = {} THEN B
    ELSE LET k == CHOOSE x \in keys : TRUE
         IN RemoveKeys(RemoveKey(B, k), keys \ {k})

\* An expiry test under which no TTL ever elapses.
IsExpiredNever(expires_at, t) == FALSE

\* `expires_at and utcnow() > expires_at`
IsExpiredAt(expires_at, t) == expires_at # None /\ t > expires_at

\* A TTL check that finds no entry expired.
KeyExpiredNever(B, key, t) == FALSE

KeyExpired(B, key, t) ==
    key \in DOMAIN B.metadata /\ IsExpiredAt(B.metadata[key].expires_at, t)

\* The keys physically present at time t whose TTL has elapsed; recorded with
\* the result of a read for the properties below, the code does not compute it.
StaleKeys(B, t) ==
    {k \in DOMAIN B.metadata :
        B.metadata[k].expires_at # None /\ t > B.metadata[k].expires_at}

\* MemoryStorageBackend._cleanup_expired_unsafe
CleanupExpired(B, t) ==
    RemoveKeys(B, {k \in DOMAIN B.metadata : IsExpiredAt(B.metadata[k].expires_at, t)})

\* sorted(items, key=lambda x: x[1]) : insertion of one item into a sorted list,
\* after every item that is not later (the sort is stable).
RECURSIVE InsertByTime(_, _)
InsertByTime(sorted, item) ==
    IF sorted = <<>> THEN <<item>>
    ELSE IF Head(sorted)[2] <= item[2]
         THEN <<Head(sorted)>> \o InsertByTime(Tail(sorted), item)
         ELSE <<item>> \o sorted

\* A sort that leaves the list as it is.
NoSort(s) == s

RECURSIVE SortByTime(_)
SortByTime(s) ==
    IF s = <<>> THEN <<>>
    ELSE InsertByTime(SortByTime(SubSeq(s, 1, Len(s) - 1)), s[Len(s)])

\* The eviction loop of _ensure_space_unsafe over keys_by_access.
RECURSIVE EvictLoop(_, _, _, _, _)
EvictLoop(B, keys_by_access, exclude_key, space_needed, evicted_bytes) ==
    IF keys_by_access = <<>> THEN B
    ELSE LET key == Head(keys_by_access)[1]
         IN IF key = exclude_key
            THEN EvictLoop(B, Tail(keys_by_access), exclude_key, space_needed, evicted_bytes)
            ELSE IF key \in DOMAIN B.storage
            THEN LET size == ByteLen(B.storage[key])
                     B1 == RemoveKey(B, key)
                 IN IF evicted_bytes + size >= space_needed
                    THEN B1
                    ELSE EvictLoop(B1, Tail(keys_by_access), exclude_key,
                                   space_needed, evicted_bytes + size)
            ELSE EvictLoop(B, Tail(keys_by_access), exclude_key, space_needed, evicted_bytes)

\* keys_by_access = sorted(self._access_times.items(), key=lambda x: x[1])
KeysByAccess(items) == SortByTime(items)

\* The empty key "", which Python takes for false.
EmptyKey == <<>>

\* MemoryStorageBackend._ensure_space_unsafe
\* (`if exclude_key and exclude_key in self._storage`).
EnsureSpace(B, required_bytes, exclude_key, t, max_bytes) ==
    LET B1 == CleanupExpired(B, t)
        current_usage ==
            IF exclude_key # EmptyKey /\ exclude_key \in DOMAIN B1.storage
            THEN B1.total_size_bytes - ByteLen(B1.storage[exclude_key])
            ELSE B1.total_size_bytes
    IN IF current_usage + required_bytes <= max_bytes
       THEN B1
       ELSE EvictLoop(B1, KeysByAccess(B1.access_times), exclude_key,
                      (current_usage + required_bytes) - max_bytes, 0)

\* An expiry that ignores the ttl passed to set.
ExpiresAtDefaultOnly(ttl_seconds, default_ttl, t) ==
    IF default_ttl # 0 THEN t + default_ttl ELSE None

\* `ttl_seconds or self.default_ttl_seconds`, then the expiry (None when falsy).
ExpiresAt(ttl_seconds, default_ttl, t) ==
    LET effective_ttl == IF ttl_seconds # 0 THEN ttl_seconds ELSE default_ttl
    IN IF effective_ttl # 0 THEN t + effective_ttl ELSE None

\* MemoryStorageBackend.set, inside the lock.
BackendSet(B, key, value, ttl_seconds, default_ttl, t, max_bytes) ==
    LET expires_at == ExpiresAt(ttl_seconds, default_ttl, t)
        value_size == ByteLen(value)
        B1 == EnsureSpace(B, value_size, key, t, max_bytes)
        old_size == IF key \in DOMAIN B1.storage THEN ByteLen(B1.storage[key]) ELSE 0
    IN [storage |-> [k \in DOMAIN B1.storage \cup {key} |->
                        IF k = key THEN value ELSE B1.storage[k]],
        metadata |-> [k \in DOMAIN B1.metadata \cup {key} |->
                        IF k = key THEN [expires_at |-> expires_at, size |-> value_size]
                        ELSE B1.metadata[k]],
        access_times |-> DictSet(B1.access_times, key, t),
        total_size_bytes |-> B1.total_size_bytes + value_size - old_size]

\* What a read returns when there is nothing: None.
NoBytes == [kind |-> "none", content |-> "", size |-> 0]

\* MemoryStorageBackend.get, inside the lock: the tables after it.
BackendGetTables(B, key, t) ==
    IF key \notin DOMAIN B.storage THEN B
    ELSE IF KeyExpired(B, key, t) THEN RemoveKey(B, key)
    ELSE [B EXCEPT !.access_times = DictSet(B.access_times, key, t)]

\* MemoryStorageBackend.get: the bytes returned.
BackendGetResult(B, key, t) ==
    IF key \notin DOMAIN B.storage THEN NoBytes
    ELSE IF KeyExpired(B, key, t) THEN NoBytes
    ELSE B.storage[key]

\* A delete that removes nothing.
BackendDeleteKeeps(B, key) == B

\* MemoryStorageBackend.delete
BackendDeleteTables(B, key) ==
    IF key \in DOMAIN B.storage THEN RemoveKey(B, key) ELSE B

BackendDeleteResult(B, key) == key \in DOMAIN B.storage

\* MemoryStorageBackend.exists
BackendExistsTables(B, key, t) ==
    IF key \notin DOMAIN B.storage THEN B
    ELSE IF KeyExpired(B, key, t) THEN RemoveKey(B, key)
    ELSE B

BackendExistsResult(B, key, t) ==
    key \in DOMAIN B.storage /\ ~KeyExpired(B, key, t)

\* key.startswith(prefix); a key is the tuple of its colon-separated parts, a
\* prefix ending in a colon the tuple of its parts.
StartsWith(key, prefix) ==
    Len(prefix) <= Len(key) /\ SubSeq(key, 1, Len(prefix)) = prefix

\* MemoryStorageBackend.list_keys: the purge, then the keys (as a set; the
\* store sorts what it derives from them).
BackendListTables(B, t) == CleanupExpired(B, t)

BackendListResult(B, prefix, t) ==
    {k \in DOMAIN CleanupExpired(B, t).storage : StartsWith(k, prefix)}

\* MemoryStorageBackend.cleanup, inside the lock.
BackendCleanupTables(B) == EmptyTables

(* ------------------------- tasks and the clock -------------------------- *)

\* A task's frame when it runs no call.
IdleFrame == [op |-> "none"]

\* No call of the manager in progress.
NoCall == [stage |-> "none"]

\* No bulk call of the manager in progress.
NoBulk == [stage |-> "none"]

\* The coroutine of a periodic task (health_monitor, backup_task): where it
\* is (at: "none" when no task was created, "created" before its first step,
\* "sleeping" inside the try of its loop, "ended"), and how it ended (ended_by).
\* iterations, caught and last count the iterations that completed and the
\* exceptions the loop caught and tell which came last; the code keeps no
\* such counters.
NoLoop == [at |-> "none", iterations |-> 0, caught |-> 0, last |-> "", ended_by |-> ""]

\* The most samples of one operation the metrics count.
MaxSamples == 2

\* The operations StateStoreMetrics.record_operation is called for:
\* "save_agent_state", "load_agent_state", "delete_agent_state".
MeasuredOps == {"save", "load", "delete"}

\* StateStoreManager.__init__: no store yet, no task, empty cache, no schema
\* registered with the validator.  With metrics disabled self._metrics is
\* None; the counters then stay at zero.
\* shutdown_completed records that shutdown() has returned; the code keeps no
\* such field.
NewManager(metrics_enabled, backup_enabled) ==
    [metrics_enabled |-> metrics_enabled, backup_enabled |-> backup_enabled,
     store |-> FALSE,
     health_check_task |-> "none", backup_task |-> "none",
     metadata_cache |-> EmptyDict, cache_expiry |-> EmptyDict,
     shutdown_completed |-> FALSE,
     schema_registered |-> FALSE,
     metrics |-> [operations_count |-> [op \in MeasuredOps |-> 0],
                  error_count |-> [op \in MeasuredOps |-> 0],
                  total_states_stored |-> 0, total_states_loaded |-> 0,
                  total_states_deleted |-> 0],
     call |-> [p \in Procs |-> NoCall],
     bulk |-> [p \in Procs |-> NoBulk],
     loops |-> [health_check_task |-> NoLoop, backup_task |-> NoLoop]]

SetTables(B) ==
    /\ storage' = B.storage
    /\ metadata' = B.metadata
    /\ access_times' = B.access_times
    /\ total_size_bytes' = B.total_size_bytes

\* Time passes.
Tick ==
    /\ now < MaxTime
    /\ now' = now + 1
    /\ UNCHANGED <<config, tables, lock, pc, frame, manager>>

\* A lock whose acquire never waits.
LockFreeNoWait(l) == TRUE

\* asyncio.Lock: acquire succeeds only when nobody holds the lock.
LockFree(l) == l = 0

(* ------------- backend calls, with their critical sections -------------- *)

\* `async with self._lock:` entered by task p for the backend call f.
BEnter(p, f) ==
    /\ pc[p] \in {"idle", "done"}
    /\ LockFree(lock)
    /\ lock' = p
    /\ pc' = [pc EXCEPT ![p] = "b_cs"]
    /\ frame' = [frame EXCEPT ![p] = f]
    /\ UNCHANGED <<now, config, tables, manager>>

\* The arguments of one backend call (those the operation does not take
\* are left at a fixed value).
BCall(op, key, value, ttl) == [key |-> key, value |-> value, op |-> op, ttl |-> ttl]

\* The tables after the body of backend call f at time t.
BodyTables(B, f, default_ttl, t) ==
    CASE f.op = "set" ->
            BackendSet(B, f.key, f.value, f.ttl, default_ttl, t, max_size_bytes)
      [] f.op = "get" -> BackendGetTables(B, f.key, t)
      [] f.op = "delete" -> BackendDeleteTables(B, f.key)
      [] f.op = "exists" -> BackendExistsTables(B, f.key, t)
      [] f.op = "list_keys" -> BackendListTables(B, t)
      [] f.op = "cleanup" -> BackendCleanupTables(B)

\* The body of the call, run by the task inside its critical section.
BBody(p) ==
    /\ pc[p] = "b_cs"
    /\ LET f == frame[p]
           B == Tables
       IN /\ SetTables(BodyTables(B, f, default_ttl_seconds, now))
          /\ frame' = [frame EXCEPT ![p] =
                [op |-> f.op, key |-> f.key, value |-> f.value, ttl |-> f.ttl,
                 ret_bytes |-> IF f.op = "get" THEN BackendGetResult(B, f.key, now)
                               ELSE NoBytes,
                 ret_bool |-> CASE f.op = "delete" -> BackendDeleteResult(B, f.key)
                                [] f.op = "exists" -> BackendExistsResult(B, f.key, now)
                                [] OTHER -> FALSE,
                 ret_keys |-> IF f.op = "list_keys" THEN BackendListResult(B, f.key, now)
                              ELSE {},
                 stale |-> IF f.op \in {"get", "exists", "list_keys"}
                           THEN StaleKeys(B, now) ELSE {}]]
    /\ pc' = [pc EXCEPT ![p] = "b_exit"]
    /\ UNCHANGED <<now, config, lock, manager>>

\* Leaving `async with self._lock:`; the call returns.
BExit(p) ==
    /\ pc[p] = "b_exit"
    /\ lock' = 0
    /\ pc' = [pc EXCEPT ![p] = "idle"]
    /\ frame' = [frame EXCEPT ![p] = IdleFrame]
    /\ UNCHANGED <<now, config, tables, manager>>

\* test_key and test_value of MemoryStorageBackend.health_check
HealthKey == <<"__health_check__">>
HealthValue == RawValue("health_check_test", 17)

\* health_check: `await self.set(test_key, test_value)`.  others records,
\* for the properties below, the entries other than the test key that the
\* backend held unexpired when the call began (value and expiry); the code
\* keeps no such record.
HealthSet(p) ==
    LET B == Tables
        live == {k \in DOMAIN B.storage \ StaleKeys(B, now) : k # HealthKey}
    IN /\ pc[p] \in {"idle", "done"}
       /\ LockFree(lock)
       /\ SetTables(BackendSet(B, HealthKey, HealthValue, 0, default_ttl_seconds, now,
                               max_size_bytes))
       /\ frame' = [frame EXCEPT ![p] =
             [op |-> "health_check", retrieved |-> NoBytes, ret_bool |-> FALSE,
              others |-> [k \in live |->
                            [value |-> B.storage[k],
                             expires_at |-> B.metadata[k].expires_at]]]]
       /\ pc' = [pc EXCEPT ![p] = "hc_get"]
       /\ UNCHANGED <<now, config, lock, manager>>

\* health_check: `retrieved = await self.get(test_key)`
HealthGet(p) ==
    LET B == Tables
    IN /\ pc[p] = "hc_get"
       /\ LockFree(lock)
       /\ SetTables(BackendGetTables(B, HealthKey, now))
       /\ frame' = [frame EXCEPT ![p].retrieved = BackendGetResult(B, HealthKey, now)]
       /\ pc' = [pc EXCEPT ![p] = "hc_delete"]
       /\ UNCHANGED <<now, config, lock, manager>>

\* health_check: `await self.delete(test_key)`, `return retrieved == test_value`
HealthDelete(p) ==
    LET B == Tables
    IN /\ pc[p] = "hc_delete"
       /\ LockFree(lock)
       /\ SetTables(BackendDeleteTables(B, HealthKey))
       /\ frame' = [frame EXCEPT ![p].ret_bool = (frame[p].retrieved = HealthValue)]
       /\ pc' = [pc EXCEPT ![p] = "done"]
       /\ UNCHANGED <<now, config, lock, manager>>

InitBackend ==
    /\ now = 0
    /\ default_ttl_seconds \in DefaultTtls
    /\ max_size_bytes = RawMaxSizeBytes
    /\ max_states_per_thread = DefaultMaxStatesPerThread
    /\ storage = EmptyDict
    /\ metadata = EmptyDict
    /\ access_times = <<>>
    /\ total_size_bytes = 0
    /\ lock = 0
    /\ pc = [p \in Procs |-> "idle"]
    /\ frame = [p \in Procs |-> IdleFrame]
    /\ manager = NewManager(TRUE, FALSE)

NextBackend ==
    \/ Tick
    \/ \E p \in Procs, key \in RawKeys, value \in RawValues, ttl \in TtlArgs :
          BEnter(p, BCall("set", key, value, ttl))
    \/ \E p \in Procs, key \in RawKeys, op \in {"get", "delete", "exists"} :
          BEnter(p, BCall(op, key, NoBytes, 0))
    \/ \E p \in Procs, op \in {"list_keys", "cleanup"} :
          BEnter(p, BCall(op, <<>>, NoBytes, 0))
    \/ \E p \in Procs : BBody(p)
    \/ \E p \in Procs : BExit(p)

\* Tasks calling the byte store directly.
SpecBackend == InitBackend /\ [][NextBackend]_vars

\* One task filling a byte store of EvictMaxSizeBytes bytes: three keys, one
\* of them the empty string, and values of 1..MaxValueLen bytes.
EvictMaxSizeBytes == 3

EvictKeys == {<<"k1">>, <<"k2">>, EmptyKey}

EvictValues == {RawValue("x", n) : n \in 1..MaxValueLen}

InitEvict ==
    /\ now = 0
    /\ default_ttl_seconds = 0
    /\ max_size_bytes = EvictMaxSizeBytes
    /\ max_states_per_thread = DefaultMaxStatesPerThread
    /\ storage = EmptyDict
    /\ metadata = EmptyDict
    /\ access_times = <<>>
    /\ total_size_bytes = 0
    /\ lock = 0
    /\ pc = [p \in Procs |-> "idle"]
    /\ frame = [p \in Procs |-> IdleFrame]
    /\ manager = NewManager(TRUE, FALSE)

NextEvict ==
    \/ Tick
    \/ \E key \in EvictKeys, value \in EvictValues, ttl \in TtlArgs :
          BEnter(1, BCall("set", key, value, ttl))
    \/ \E key \in EvictKeys : BEnter(1, BCall("get", key, NoBytes, 0))
    \/ BBody(1)
    \/ BExit(1)

SpecEvict == InitEvict /\ [][NextEvict]_vars

(* ---------------------- identifiers and state keys --------------------- *)

\* An identifier is the sequence of its characters.
Letters == {"a", "t"}
Digits == {"1", "2", "3"}

\* [a-zA-Z0-9\-_] restricted to the characters the model writes.
IdChars == Letters \cup Digits \cup {"-", "_"}

\* re.match(r'^[a-zA-Z0-9\-_]+$', s): `$` also matches before a final line break.
MatchesIdPattern(s) ==
    LET body == IF Len(s) > 0 /\ s[Len(s)] = "\n" THEN SubSeq(s, 1, Len(s) - 1) ELSE s
    IN Len(body) >= 1 /\ \A i \in 1..Len(body) : body[i] \in IdChars

\* The longest thread id and the longest agent name that pass validation.
MaxThreadIdLen == 255
MaxAgentNameLen == 100

validate_thread_id(thread_id) ==
    /\ Len(thread_id) # 0
    /\ ~(Len(thread_id) > MaxThreadIdLen \/ Len(thread_id) < 1)
    /\ MatchesIdPattern(thread_id)

validate_agent_name(agent_name) ==
    /\ Len(agent_name) # 0
    /\ ~(Len(agent_name) > MaxAgentNameLen \/ Len(agent_name) < 1)
    /\ MatchesIdPattern(agent_name)

\* A state key made of the thread alone: the agents of a thread share it.
StateKeyOfThread(thread_id, agent_name) ==
    <<"copilotkit", "state", thread_id, <<"a">>>>

\* f"copilotkit:state:{thread_id}:{agent_name}", as the tuple of its parts.
generate_state_key(thread_id, agent_name) ==
    <<"copilotkit", "state", thread_id, agent_name>>

\* f"copilotkit:state:{thread_id}:"
ThreadPrefix(thread_id) == <<"copilotkit", "state", thread_id>>

\* "copilotkit:state:"
StatePrefix == <<"copilotkit", "state">>

\* Character order of the characters used (ASCII).
CharOrder == <<"\n", "-", "1", "2", "3", "_", "a", "t">>

CharIndex(c) == CHOOSE i \in 1..Len(CharOrder) : CharOrder[i] = c

\* s1 < s2 for Python strings.
RECURSIVE StrLess(_, _)
StrLess(s1, s2) ==
    IF s2 = <<>> THEN FALSE
    ELSE IF s1 = <<>> THEN TRUE
    ELSE IF Head(s1) = Head(s2) THEN StrLess(Tail(s1), Tail(s2))
    ELSE CharIndex(Head(s1)) < CharIndex(Head(s2))

\* The names from the greatest down.
RECURSIVE SortedDescending(_)
SortedDescending(S) ==
    IF S = {} THEN <<>>
    ELSE LET greatest == CHOOSE x \in S : \A y \in S \ {x} : StrLess(y, x)
         IN <<greatest>> \o SortedDescending(S \ {greatest})

\* sorted(names) of a collection without duplicates.
RECURSIVE SortedIds(_)
SortedIds(S) ==
    IF S = {} THEN <<>>
    ELSE LET least == CHOOSE x \in S : \A y \in S \ {x} : StrLess(x, y)
         IN <<least>> \o SortedIds(S \ {least})

SeqToSet(s) == {s[i] : i \in 1..Len(s)}

(* ------------------------- state data and JSON -------------------------- *)

\* Python values held in state data: an int, a nested dict of ints (a set of
\* <<key, int>> pairs), an object json cannot encode, a str, a bool, a float
\* and a list; t is the value's class.
PyInt(n) == [n |-> n, t |-> "int", d |-> {}]
PyDict(pairs) == [n |-> 0, t |-> "dict", d |-> pairs]
PyObject == [n |-> 0, t |-> "object", d |-> {}]
PyStr == [n |-> 0, t |-> "str", d |-> {}]
PyBool == [n |-> 1, t |-> "bool", d |-> {}]
PyFloat == [n |-> 0, t |-> "float", d |-> {}]
PyList == [n |-> 0, t |-> "list", d |-> {}]

\* The str '\ud800', a lone surrogate (code point 55296), as a value of state
\* data and as the value of a tag.
PyLoneSurrogate == [n |-> 55296, t |-> "str", d |-> {}]
LoneSurrogate == "U+D800"

\* A state_data argument that is no dict but a list: its class is held under
\* "__class__", which is a key of no dict of the model.
ListArgument == [k \in {"__class__"} |-> PyList]

\* isinstance(state_data, dict)
IsDict(state_data) == "__class__" \notin DOMAIN state_data

\* json.dumps(state_data, default=str, ensure_ascii=False).encode('utf-8')
\* returns: default=str stands in for what json cannot encode, the text of a
\* lone surrogate cannot be encoded as UTF-8 (UnicodeEncodeError, a
\* ValueError, raised as StateCorruptionError).
EncodesData(state_data) == \A k \in DOMAIN state_data : state_data[k] # PyLoneSurrogate
EncodesTags(tags) == \A tg \in tags : tg[2] # LoneSurrogate

\* json.dumps(value, default=str) read back by json.loads: what json cannot
\* encode is replaced by its str().
JsonRoundTrip(v) == IF v.t = "object" THEN PyStr ELSE v

\* The JSON document of a dict: json.dumps(..., default=str).
JsonDoc(data) == [k \in DOMAIN data |-> JsonRoundTrip(data[k])]

\* Length of the JSON text of a value and of a dict of values.
JsonValueLen(v) ==
    CASE v.t = "int" -> 1
      [] v.t = "dict" -> 2 + 8 * Cardinality(v.d)
      [] v.t = "str" -> 18
      [] OTHER -> 18

RECURSIVE JsonDictLen(_, _)
JsonDictLen(doc, keys) ==
    IF keys = {} THEN 2
    ELSE LET k == CHOOSE x \in keys : TRUE
         IN 7 + JsonValueLen(doc[k]) + JsonDictLen(doc, keys \ {k})

\* StateStore.serialize_state on state data: the UTF-8 bytes of the JSON text.
serialize_state(state_data) ==
    LET doc == JsonDoc(state_data)
    IN [kind |-> "json", size |-> JsonDictLen(doc, DOMAIN doc), doc |-> doc]

\* hashlib.sha256(state_bytes).hexdigest(): equal bytes, equal digest.
sha256(state_bytes) == <<"sha256", state_bytes.doc>>

\* StateMetadata
StateMetadata(created_at, updated_at, version, tags) ==
    [created_at |-> created_at, updated_at |-> updated_at, version |-> version,
     size_bytes |-> 0, checksum |-> <<>>, tags |-> tags]

\* Length of the JSON text of metadata.to_dict() (timestamps, digest, names).
MetadataJsonLen == 190

\* serialize_state on {"data": final_state_data, "metadata": metadata.to_dict()}
serialize_container(final_state_data, meta) ==
    LET doc == JsonDoc(final_state_data)
    IN [kind |-> "json",
        size |-> 24 + JsonDictLen(doc, DOMAIN doc) + MetadataJsonLen
                    + 10 * Cardinality(meta.tags),
        doc |-> [metadata |-> meta, data |-> doc]]

\* StoredState, and None for no state.
StoredState(state_key, data, meta) ==
    [found |-> TRUE, state_key |-> state_key, data |-> data, metadata |-> meta]

NoState == [found |-> FALSE]

\* deserialize_state, container_data["data"], container_data["metadata"],
\* StateMetadata.from_dict: whether the bytes decode to a container.
IsContainer(raw) ==
    raw.kind = "json" /\ DOMAIN raw.doc = {"data", "metadata"}

(* --------------------------- MemoryStateStore --------------------------- *)

\* MemoryStateStore.load_agent_state after validation: the envelope under the
\* key, None, or an error (any exception is re-raised as StorageError).
LoadTables(B, thread_id, agent_name, t) ==
    BackendGetTables(B, generate_state_key(thread_id, agent_name), t)

LoadFails(B, thread_id, agent_name, t) ==
    LET raw == BackendGetResult(B, generate_state_key(thread_id, agent_name), t)
    IN raw.kind # "none" /\ ~IsContainer(raw)

\* The exception raised inside the try block of load_agent_state on a
\* malformed payload: deserialize_state raises StateCorruptionError on bytes
\* that are no JSON text, container_data["data"] and container_data["metadata"]
\* raise KeyError on a document without these parts.
LoadCause(B, thread_id, agent_name, t) ==
    LET raw == BackendGetResult(B, generate_state_key(thread_id, agent_name), t)
    IN IF raw.kind = "raw" THEN "StateCorruptionError" ELSE "KeyError"

\* The handler of load_agent_state: `raise StorageError(...) from e`.
LoadError == "StorageError"

LoadResult(B, thread_id, agent_name, t) ==
    LET state_key == generate_state_key(thread_id, agent_name)
        raw == BackendGetResult(B, state_key, t)
    IN IF raw.kind = "none" \/ ~IsContainer(raw) THEN NoState
       ELSE StoredState(state_key, raw.doc.data, raw.doc.metadata)

\* merged_data = existing_state.data.copy(); merged_data.update(final_state_data)
MergeData(existing_data, state_data) ==
    [k \in DOMAIN existing_data \cup DOMAIN state_data |->
        IF k \in DOMAIN state_data THEN state_data[k] ELSE existing_data[k]]

\* A save that would drop the loaded state instead of merging into it.
FinalStateDataNoMerge(existing_state, state_data) == state_data

\* final_state_data of save_agent_state
FinalStateData(existing_state, state_data) ==
    IF existing_state.found THEN MergeData(existing_state.data, state_data)
    ELSE state_data

\* Metadata that carries the tags of the state merged into over to the new
\* entry.
SaveMetadataKeepsTags(existing_state, final_state_data, tags, t) ==
    LET state_bytes == serialize_state(final_state_data)
        meta == StateMetadata(
                    IF existing_state.found THEN existing_state.metadata.created_at ELSE t,
                    t,
                    IF existing_state.found THEN existing_state.metadata.version + 1 ELSE 1,
                    IF existing_state.found
                    THEN existing_state.metadata.tags \cup tags ELSE tags)
    IN [meta EXCEPT !.size_bytes = ByteLen(state_bytes),
                    !.checksum = sha256(state_bytes)]

\* Metadata that keeps the size and the checksum of the state it was merged
\* into.
SaveMetadataStale(existing_state, final_state_data, tags, t) ==
    LET state_bytes == serialize_state(final_state_data)
        meta == StateMetadata(
                    IF existing_state.found THEN existing_state.metadata.created_at ELSE t,
                    t,
                    IF existing_state.found THEN existing_state.metadata.version + 1 ELSE 1,
                    tags)
    IN IF existing_state.found
       THEN [meta EXCEPT !.size_bytes = existing_state.metadata.size_bytes,
                         !.checksum = existing_state.metadata.checksum]
       ELSE [meta EXCEPT !.size_bytes = ByteLen(state_bytes),
                         !.checksum = sha256(state_bytes)]

\* The metadata save_agent_state builds at time t, with size and checksum of
\* the serialized final data.
SaveMetadata(existing_state, final_state_data, tags, t) ==
    LET state_bytes == serialize_state(final_state_data)
        meta == StateMetadata(
                    IF existing_state.found THEN existing_state.metadata.created_at ELSE t,
                    t,
                    IF existing_state.found THEN existing_state.metadata.version + 1 ELSE 1,
                    tags)
    IN [meta EXCEPT !.size_bytes = ByteLen(state_bytes),
                    !.checksum = sha256(state_bytes)]

\* The agents list_thread_agents derives from the keys under the thread prefix.
ThreadAgentsOf(keys, thread_id) ==
    {k[4] : k \in {x \in keys : StartsWith(x, ThreadPrefix(thread_id)) /\ Len(x) = 4
                                  /\ validate_agent_name(x[4])}}

\* The threads list_agent_threads derives from the state keys ending in the agent.
AgentThreadsOf(keys, agent_name) ==
    {k[3] : k \in {x \in keys : StartsWith(x, StatePrefix) /\ Len(x) = 4
                                  /\ x[4] = agent_name /\ validate_thread_id(x[3])}}

\* [a for a in agents if a != exclude_agent]
RECURSIVE SeqExcluding(_, _)
SeqExcluding(agents, exclude_agent) ==
    IF agents = <<>> THEN <<>>
    ELSE IF Head(agents) = exclude_agent THEN SeqExcluding(Tail(agents), exclude_agent)
    ELSE <<Head(agents)>> \o SeqExcluding(Tail(agents), exclude_agent)

\* states_to_remove = len(agents) - max_states_per_thread + 1
StatesToRemove(agents, limit) == Len(agents) - limit + 1

\* len(agents) >= self.max_states_per_thread
OverThreadLimit(agents, limit) == Len(agents) >= limit

\* The agents deleted: the first min(states_to_remove, len) of agent_metadata
\* sorted by updated_at.
AgentsToEvict(agent_metadata, states_to_remove) ==
    LET sorted == SortByTime(agent_metadata)
        n == IF states_to_remove < Len(sorted) THEN states_to_remove ELSE Len(sorted)
    IN [i \in 1..n |-> sorted[i][1]]

\* The agents holding live state in a thread at time t, each with the
\* updated_at of its state and the expiry of its entry.
ThreadBefore(B, thread_id, t) ==
    LET keys == {k \in DOMAIN B.storage \ StaleKeys(B, t) :
                    /\ StartsWith(k, ThreadPrefix(thread_id)) /\ Len(k) = 4
                    /\ IsContainer(B.storage[k])}
    IN [a \in {k[4] : k \in keys} |->
           LET k == generate_state_key(thread_id, a)
           IN [updated_at |-> B.storage[k].doc.metadata.updated_at,
               expires_at |-> B.metadata[k].expires_at]]

\* A task may start a call when it runs none.
CanCall(p) == pc[p] \in {"idle", "done", "m_call"}

\* What is left of a call's frame when the call has returned or raised: its
\* arguments and its outcome.
Returned(f, error, ret, ret_bool, ret_list) ==
    [op |-> f.op, thread |-> f.thread, agent |-> f.agent,
     data |-> IF f.op = "save" THEN f.data ELSE EmptyDict,
     merge |-> IF f.op = "save" THEN f.merge ELSE FALSE,
     tags |-> IF f.op = "save" THEN f.tags ELSE {},
     held |-> IF f.op = "save" THEN f.held ELSE NoState,
     before |-> IF f.op = "save" THEN f.before ELSE EmptyDict,
     stale |-> IF f.op = "save" THEN {} ELSE f.stale,
     err |-> error, ret |-> ret, ret_bool |-> ret_bool, ret_list |-> ret_list,
     ret_count |-> 0, cause |-> "",
     holders |-> IF f.op = "clear_thread_state" THEN f.holders ELSE {}]

\* raise error
Raise(p, f, error) ==
    /\ pc' = [pc EXCEPT ![p] = "done"]
    /\ frame' = [frame EXCEPT ![p] = Returned(f, error, NoState, FALSE, <<>>)]

\* except Exception as e: raise error(...) from e, where e is of kind cause
RaiseFrom(p, f, error, cause) ==
    /\ pc' = [pc EXCEPT ![p] = "done"]
    /\ frame' = [frame EXCEPT ![p] =
          [Returned(f, error, NoState, FALSE, <<>>) EXCEPT !.cause = cause]]

SaveFrame(thread_id, agent_name, state_data, merge_with_existing, tags) ==
    [op |-> "save", thread |-> thread_id, agent |-> agent_name, data |-> state_data,
     merge |-> merge_with_existing, tags |-> tags, err |-> "",
     existing |-> NoState, final |-> state_data,
     meta |-> StateMetadata(0, 0, 0, {}),
     agents |-> <<>>, idx |-> 0, infos |-> <<>>, removing |-> <<>>,
     held |-> NoState, before |-> EmptyDict]

\* save_agent_state up to the call of _enforce_thread_limits: validation, the
\* load of the existing state when merging, the merge and the metadata.
SaveCall(p, thread_id, agent_name, state_data, merge_with_existing, tags) ==
    LET B == Tables
        \* held: the live state of the key at the moment of the call, kept for
        \* the properties below; the code does not read it.
        \* before: the agents holding live state in the thread at that moment,
        \* with their updated_at and the expiry of their entries; likewise.
        f == [SaveFrame(thread_id, agent_name, state_data, merge_with_existing, tags)
                EXCEPT !.held = LoadResult(B, thread_id, agent_name, now),
                       !.before = ThreadBefore(B, thread_id, now)]
    IN /\ CanCall(p)
       /\ IF ~validate_thread_id(thread_id) \/ ~validate_agent_name(agent_name)
          THEN Raise(p, f, "StorageError") /\ UNCHANGED tables
          ELSE IF ~IsDict(state_data)
          THEN Raise(p, f, "StorageError") /\ UNCHANGED tables
          ELSE IF merge_with_existing
          THEN /\ LockFree(lock)
               /\ SetTables(LoadTables(B, thread_id, agent_name, now))
               /\ IF LoadFails(B, thread_id, agent_name, now)
                  THEN RaiseFrom(p, f, "StorageError", LoadError)
                  ELSE LET existing == LoadResult(B, thread_id, agent_name, now)
                           final == FinalStateData(existing, state_data)
                       IN IF ~EncodesData(final)
                          THEN RaiseFrom(p, f, "StorageError", "StateCorruptionError")
                          ELSE /\ frame' = [frame EXCEPT ![p] =
                                     [f EXCEPT !.existing = existing, !.final = final,
                                               !.meta = SaveMetadata(existing, final, tags, now)]]
                               /\ pc' = [pc EXCEPT ![p] = "save_list"]
          ELSE IF ~EncodesData(state_data)
          THEN RaiseFrom(p, f, "StorageError", "StateCorruptionError") /\ UNCHANGED tables
          ELSE /\ frame' = [frame EXCEPT ![p] =
                     [f EXCEPT !.meta = SaveMetadata(NoState, state_data, tags, now)]]
               /\ pc' = [pc EXCEPT ![p] = "save_list"]
               /\ UNCHANGED tables
       /\ UNCHANGED <<now, config, lock, manager>>

\* _enforce_thread_limits: list_thread_agents and the test of the limit.
SaveList(p) ==
    LET f == frame[p]
        B == Tables
        keys == BackendListResult(B, ThreadPrefix(f.thread), now)
        agents == SeqExcluding(SortedIds(ThreadAgentsOf(keys, f.thread)), f.agent)
    IN /\ pc[p] = "save_list"
       /\ LockFree(lock)
       /\ SetTables(BackendListTables(B, now))
       /\ frame' = [frame EXCEPT ![p] = [f EXCEPT !.agents = agents, !.idx = 1]]
       /\ pc' = [pc EXCEPT ![p] =
             IF OverThreadLimit(agents, max_states_per_thread) /\ agents # <<>>
             THEN "save_meta" ELSE "save_set"]
       /\ UNCHANGED <<now, config, lock, manager>>

\* _enforce_thread_limits: get_state_metadata of the next agent of the thread;
\* after the last one, the sort by updated_at and the choice of the states to remove.
SaveMeta(p) ==
    LET f == frame[p]
        B == Tables
        agent_name == f.agents[f.idx]
        loaded == LoadResult(B, f.thread, agent_name, now)
        infos == IF loaded.found
                 THEN Append(f.infos, <<agent_name, loaded.metadata.updated_at>>)
                 ELSE f.infos
        removing == AgentsToEvict(infos, StatesToRemove(f.agents, max_states_per_thread))
    IN /\ pc[p] = "save_meta"
       /\ LockFree(lock)
       /\ SetTables(LoadTables(B, f.thread, agent_name, now))
       /\ IF LoadFails(B, f.thread, agent_name, now)
          THEN RaiseFrom(p, f, "StorageError", LoadError)
          ELSE IF f.idx < Len(f.agents)
          THEN /\ frame' = [frame EXCEPT ![p] = [f EXCEPT !.infos = infos, !.idx = f.idx + 1]]
               /\ pc' = pc
          ELSE /\ frame' = [frame EXCEPT ![p] =
                     [f EXCEPT !.infos = infos, !.removing = removing]]
               /\ pc' = [pc EXCEPT ![p] =
                     IF removing = <<>> THEN "save_set" ELSE "save_evict"]
       /\ UNCHANGED <<now, config, lock, manager>>

\* _enforce_thread_limits: delete_agent_state of the next state to remove.
SaveEvict(p) ==
    LET f == frame[p]
        B == Tables
    IN /\ pc[p] = "save_evict"
       /\ LockFree(lock)
       /\ SetTables(BackendDeleteTables(B, generate_state_key(f.thread, Head(f.removing))))
       /\ frame' = [frame EXCEPT ![p] = [f EXCEPT !.removing = Tail(f.removing)]]
       /\ pc' = [pc EXCEPT ![p] =
             IF Tail(f.removing) = <<>> THEN "save_set" ELSE "save_evict"]
       /\ UNCHANGED <<now, config, lock, manager>>

\* The envelope {"data": ..., "metadata": metadata.to_dict()}, tags included,
\* is serialized, written under the state key and the StoredState returned;
\* a failure of the serialization is raised as StorageError.
SaveSet(p) ==
    LET f == frame[p]
        B == Tables
        state_key == generate_state_key(f.thread, f.agent)
    IN /\ pc[p] = "save_set"
       /\ LockFree(lock)
       /\ IF ~EncodesTags(f.meta.tags)
          THEN /\ RaiseFrom(p, f, "StorageError", "StateCorruptionError")
               /\ UNCHANGED tables
          ELSE /\ SetTables(BackendSet(B, state_key, serialize_container(f.final, f.meta),
                                       0, default_ttl_seconds, now, max_size_bytes))
               /\ frame' = [frame EXCEPT ![p] =
                     Returned(f, "", StoredState(state_key, f.final, f.meta), FALSE, <<>>)]
               /\ pc' = [pc EXCEPT ![p] = "done"]
       /\ UNCHANGED <<now, config, lock, manager>>

\* The frame of a store call other than save.
CallFrame(op, thread_id, agent_name) ==
    [op |-> op, thread |-> thread_id, agent |-> agent_name,
     stale |-> IF op = "delete" THEN {} ELSE StaleKeys(Tables, now)]

\* MemoryStateStore.load_agent_state
Load(p, thread_id, agent_name) ==
    LET f == CallFrame("load", thread_id, agent_name)
        B == Tables
    IN /\ CanCall(p)
       /\ IF ~validate_thread_id(thread_id) \/ ~validate_agent_name(agent_name)
          THEN Raise(p, f, "StorageError") /\ UNCHANGED tables
          ELSE /\ LockFree(lock)
               /\ SetTables(LoadTables(B, thread_id, agent_name, now))
               /\ IF LoadFails(B, thread_id, agent_name, now)
                  THEN RaiseFrom(p, f, LoadError,
                                 LoadCause(B, thread_id, agent_name, now))
                  ELSE /\ frame' = [frame EXCEPT ![p] =
                             Returned(f, "", LoadResult(B, thread_id, agent_name, now),
                                      FALSE, <<>>)]
                       /\ pc' = [pc EXCEPT ![p] = "done"]
       /\ UNCHANGED <<now, config, lock, manager>>

\* MemoryStateStore.get_state_metadata: the metadata of the loaded state.
GetStateMetadata(p, thread_id, agent_name) ==
    LET f == CallFrame("get_state_metadata", thread_id, agent_name)
        B == Tables
    IN /\ CanCall(p)
       /\ IF ~validate_thread_id(thread_id) \/ ~validate_agent_name(agent_name)
          THEN Raise(p, f, "StorageError") /\ UNCHANGED tables
          ELSE /\ LockFree(lock)
               /\ SetTables(LoadTables(B, thread_id, agent_name, now))
               /\ IF LoadFails(B, thread_id, agent_name, now)
                  THEN RaiseFrom(p, f, "StorageError", LoadError)
                  ELSE /\ frame' = [frame EXCEPT ![p] =
                             Returned(f, "", LoadResult(B, thread_id, agent_name, now),
                                      FALSE, <<>>)]
                       /\ pc' = [pc EXCEPT ![p] = "done"]
       /\ UNCHANGED <<now, config, lock, manager>>

\* MemoryStateStore.delete_agent_state
Delete(p, thread_id, agent_name) ==
    LET f == CallFrame("delete", thread_id, agent_name)
        B == Tables
        state_key == generate_state_key(thread_id, agent_name)
    IN /\ CanCall(p)
       /\ IF ~validate_thread_id(thread_id) \/ ~validate_agent_name(agent_name)
          THEN Raise(p, f, "StorageError") /\ UNCHANGED tables
          ELSE /\ LockFree(lock)
               /\ SetTables(BackendDeleteTables(B, state_key))
               /\ frame' = [frame EXCEPT ![p] =
                     Returned(f, "", NoState, BackendDeleteResult(B, state_key), <<>>)]
               /\ pc' = [pc EXCEPT ![p] = "done"]
       /\ UNCHANGED <<now, config, lock, manager>>

\* MemoryStateStore.list_thread_agents
ListThreadAgents(p, thread_id) ==
    LET f == CallFrame("list_thread_agents", thread_id, <<>>)
        B == Tables
        keys == BackendListResult(B, ThreadPrefix(thread_id), now)
    IN /\ CanCall(p)
       /\ IF ~validate_thread_id(thread_id)
          THEN Raise(p, f, "StorageError") /\ UNCHANGED tables
          ELSE /\ LockFree(lock)
               /\ SetTables(BackendListTables(B, now))
               /\ frame' = [frame EXCEPT ![p] =
                     Returned(f, "", NoState, FALSE, SortedIds(ThreadAgentsOf(keys, thread_id)))]
               /\ pc' = [pc EXCEPT ![p] = "done"]
       /\ UNCHANGED <<now, config, lock, manager>>

\* MemoryStateStore.list_agent_threads
ListAgentThreads(p, agent_name) ==
    LET f == CallFrame("list_agent_threads", <<>>, agent_name)
        B == Tables
        keys == BackendListResult(B, StatePrefix, now)
    IN /\ CanCall(p)
       /\ IF ~validate_agent_name(agent_name)
          THEN Raise(p, f, "StorageError") /\ UNCHANGED tables
          ELSE /\ LockFree(lock)
               /\ SetTables(BackendListTables(B, now))
               /\ frame' = [frame EXCEPT ![p] =
                     Returned(f, "", NoState, FALSE, SortedIds(AgentThreadsOf(keys, agent_name)))]
               /\ pc' = [pc EXCEPT ![p] = "done"]
       /\ UNCHANGED <<now, config, lock, manager>>

\* MemoryStateStore.clear_thread_state up to its loop: validation and
\* list_thread_agents.
ClearThreadState(p, thread_id) ==
    LET B == Tables
        \* holders: the agents holding live state in the thread at the moment
        \* of the call, kept for the properties below; the code does not
        \* read it.
        f == [op |-> "clear_thread_state", stale |-> StaleKeys(B, now),
              thread |-> thread_id, agent |-> <<>>,
              holders |-> DOMAIN ThreadBefore(B, thread_id, now)]
        keys == BackendListResult(B, ThreadPrefix(thread_id), now)
        agents == SortedIds(ThreadAgentsOf(keys, thread_id))
    IN /\ CanCall(p)
       /\ IF ~validate_thread_id(thread_id)
          THEN Raise(p, f, "StorageError") /\ UNCHANGED tables
          ELSE /\ LockFree(lock)
               /\ SetTables(BackendListTables(B, now))
               /\ IF agents = <<>>
                  THEN /\ frame' = [frame EXCEPT ![p] = Returned(f, "", NoState, FALSE, <<>>)]
                       /\ pc' = [pc EXCEPT ![p] = "done"]
                  ELSE /\ frame' = [frame EXCEPT ![p] =
                             [op |-> f.op, stale |-> f.stale, agents |-> agents,
                              thread |-> f.thread, agent |-> f.agent,
                              holders |-> f.holders, deleted_count |-> 0]]
                       /\ pc' = [pc EXCEPT ![p] = "clear_delete"]
       /\ UNCHANGED <<now, config, lock, manager>>

\* clear_thread_state: delete_agent_state of the next agent of the list; after
\* the last one the count is returned.
ClearDelete(p) ==
    LET f == frame[p]
        B == Tables
        state_key == generate_state_key(f.thread, Head(f.agents))
        deleted_count == IF BackendDeleteResult(B, state_key)
                         THEN f.deleted_count + 1 ELSE f.deleted_count
    IN /\ pc[p] = "clear_delete"
       /\ LockFree(lock)
       /\ SetTables(BackendDeleteTables(B, state_key))
       /\ IF Tail(f.agents) = <<>>
          THEN /\ frame' = [frame EXCEPT ![p] =
                     [Returned(f, "", NoState, FALSE, <<>>)
                         EXCEPT !.ret_count = deleted_count]]
               /\ pc' = [pc EXCEPT ![p] = "done"]
          ELSE /\ frame' = [frame EXCEPT ![p] =
                     [f EXCEPT !.agents = Tail(f.agents),
                               !.deleted_count = deleted_count]]
               /\ pc' = pc
       /\ UNCHANGED <<now, config, lock, manager>>

\* A step inside a save that has begun.
SaveStep(p) == SaveList(p) \/ SaveMeta(p) \/ SaveEvict(p) \/ SaveSet(p)

\* MemoryStateStore.__init__ with the given configuration; nothing stored.
InitStore(ttls, sizes, limits) ==
    /\ now = 0
    /\ default_ttl_seconds \in ttls
    /\ max_size_bytes \in sizes
    /\ max_states_per_thread \in limits
    /\ storage = EmptyDict
    /\ metadata = EmptyDict
    /\ access_times = <<>>
    /\ total_size_bytes = 0
    /\ lock = 0
    /\ pc = [p \in Procs |-> "idle"]
    /\ frame = [p \in Procs |-> IdleFrame]
    /\ manager = NewManager(TRUE, FALSE)

(* ---------- one caller of the store, one call after the other ----------- *)

T1 == <<"t", "1">>
T2 == <<"t", "2">>
A1 == <<"a", "1">>
A2 == <<"a", "2">>
A3 == <<"a", "3">>

\* State data of the calls: flat, nested, and holding an object.
SeqData ==
    { [a |-> PyInt(1)],
      [b |-> PyInt(2)],
      [a |-> PyDict({<<"x", 1>>})],
      [a |-> PyDict({<<"y", 2>>}), b |-> PyInt(1)],
      [b |-> PyObject] }

SeqTags == {{}, {<<"env", "test">>}}

\* Saves stop once a key has reached this version.
MaxVersion == 2

StoredVersion(key) ==
    IF key \in DOMAIN storage /\ IsContainer(storage[key])
    THEN storage[key].doc.metadata.version ELSE 0

\* An envelope of the model's data is at most this long.
StoreMaxSizeBytes == 1048576

SeqMaxStatesPerThread == 1

InitSeq == InitStore({0, 1}, {StoreMaxSizeBytes}, {SeqMaxStatesPerThread})

NextSeq ==
    \/ Tick
    \/ \E a \in {A1, A2}, d \in SeqData, m \in BOOLEAN, tg \in SeqTags :
          /\ StoredVersion(generate_state_key(T1, a)) < MaxVersion
          /\ SaveCall(1, T1, a, d, m, tg)
    \/ SaveStep(1)
    \/ \E a \in {A1, A2} : Load(1, T1, a)
    \/ \E a \in {A1, A2} : GetStateMetadata(1, T1, a)
    \/ \E a \in {A1, A2} : Delete(1, T1, a)
    \/ ListThreadAgents(1, T1)
    \/ \E a \in {A1, A2} : ListAgentThreads(1, a)

\* One task calling the store, each call after the previous one returned.
SpecSeq == InitSeq /\ [][NextSeq]_vars

(* ------------------- concurrent calls on one store ----------------------- *)

\* The data each task saves: the two writers write different keys.
WriterData(p) == IF p = 1 THEN [a |-> PyInt(1)] ELSE [b |-> PyInt(2)]

ConcLimits == {1, 2}

InitConc == InitStore({0}, {StoreMaxSizeBytes}, ConcLimits)

\* Two tasks on one event loop call the store; a task may be suspended at each
\* await of a backend operation, and the other then runs.  The calls are made
\* within one tick of the clock.
NextConc ==
    \/ \E p \in Procs, a \in {A1, A2}, m \in BOOLEAN :
          /\ StoredVersion(generate_state_key(T1, a)) < MaxVersion
          /\ SaveCall(p, T1, a, WriterData(p), m, {})
    \/ \E p \in Procs : SaveStep(p)
    \/ \E p \in Procs, a \in {A1, A2} : Load(p, T1, a)
    \/ \E p \in Procs : ListThreadAgents(p, T1)

SpecConc == InitConc /\ [][NextConc]_vars

(* ---------------- reads of a store whose entries expire ------------------ *)

\* The (thread, agent) pairs of the states saved and read.
ReadPairs == {<<T1, A1>>, <<T1, A2>>, <<T2, A1>>}

ReadKeys == {generate_state_key(ta[1], ta[2]) : ta \in ReadPairs}

ReadMaxStatesPerThread == 1

InitReads == InitStore({0, 1}, {StoreMaxSizeBytes}, {ReadMaxStatesPerThread})

\* One task saves states, lets time pass and reads them back, through the
\* store and directly from the backend the store writes to.
NextReads ==
    \/ Tick
    \/ \E ta \in ReadPairs : SaveCall(1, ta[1], ta[2], [a |-> PyInt(1)], FALSE, {})
    \/ SaveStep(1)
    \/ \E ta \in ReadPairs : Load(1, ta[1], ta[2])
    \/ \E ta \in ReadPairs : GetStateMetadata(1, ta[1], ta[2])
    \/ \E t \in {T1, T2} : ListThreadAgents(1, t)
    \/ \E a \in {A1, A2} : ListAgentThreads(1, a)
    \/ \E op \in {"get", "exists"}, k \in ReadKeys : BEnter(1, BCall(op, k, NoBytes, 0))
    \/ BEnter(1, BCall("list_keys", StatePrefix, NoBytes, 0))
    \/ BBody(1)
    \/ BExit(1)

SpecReads == InitReads /\ [][NextReads]_vars

(* ------------------- a thread at its agent limit -------------------------- *)

LimitAgents == {A1, A2, A3}

LimitMaxStatesPerThread == 2

InitLimit == InitStore({0, 1}, {StoreMaxSizeBytes}, {LimitMaxStatesPerThread})

\* One task saves the states of three agents in one thread that may hold two.
NextLimit ==
    \/ Tick
    \/ \E a \in LimitAgents, m \in BOOLEAN :
          /\ StoredVersion(generate_state_key(T1, a)) < MaxVersion
          /\ SaveCall(1, T1, a, [a |-> PyInt(1)], m, {})
    \/ SaveStep(1)
    \/ \E a \in LimitAgents : Delete(1, T1, a)
    \/ ListThreadAgents(1, T1)

SpecLimit == InitLimit /\ [][NextLimit]_vars

(* ----------------- store calls with invalid identifiers ----------------- *)

\* Thread ids: a valid one, the empty string, one too long, one with a colon,
\* one that ends in a line break.
IdThreads == {T1, <<>>, [i \in 1..(MaxThreadIdLen + 1) |-> "t"], <<"t", ":">>,
              <<"t", "\n">>}

\* Agent names: a valid one, the empty string, one too long, one with a
\* colon.
IdAgents == {A1, <<>>, [i \in 1..(MaxAgentNameLen + 1) |-> "a"], <<"a", ":">>}

InitIds == InitStore({0}, {StoreMaxSizeBytes}, {DefaultMaxStatesPerThread})

\* One task calls every operation of the store with valid and invalid
\* identifiers.
NextIds ==
    \/ \E t \in IdThreads, a \in IdAgents :
          /\ StoredVersion(generate_state_key(t, a)) < MaxVersion
          /\ SaveCall(1, t, a, [a |-> PyInt(1)], TRUE, {})
    \/ SaveList(1)
    \/ SaveSet(1)
    \/ \E t \in IdThreads, a \in IdAgents : Load(1, t, a)
    \/ \E t \in IdThreads, a \in IdAgents : GetStateMetadata(1, t, a)
    \/ \E t \in IdThreads, a \in IdAgents : Delete(1, t, a)
    \/ \E t \in IdThreads : ListThreadAgents(1, t)
    \/ \E a \in IdAgents : ListAgentThreads(1, a)
    \/ \E t \in IdThreads : ClearThreadState(1, t)
    \/ ClearDelete(1)

SpecIds == InitIds /\ [][NextIds]_vars

(* ------------------- a store with malformed payloads -------------------- *)

\* Bytes that are no JSON text, and the JSON text of a document that has
\* neither a "data" nor a "metadata" part.
MalformedPayloads == {RawValue("x", 1), serialize_state([a |-> PyInt(1)])}

CorruptPairs == {<<T1, A1>>, <<T1, A2>>}

InitCorrupt == InitStore({0, 1}, {StoreMaxSizeBytes}, {DefaultMaxStatesPerThread})

\* One task saves and loads states; between its calls the payload of a state
\* key may be overwritten with malformed bytes through the backend.
NextCorrupt ==
    \/ Tick
    \/ \E ta \in CorruptPairs :
          /\ StoredVersion(generate_state_key(ta[1], ta[2])) < MaxVersion
          /\ SaveCall(1, ta[1], ta[2], [a |-> PyInt(1)], TRUE, {})
    \/ SaveList(1)
    \/ SaveSet(1)
    \/ \E ta \in CorruptPairs : Load(1, ta[1], ta[2])
    \/ \E ta \in CorruptPairs : GetStateMetadata(1, ta[1], ta[2])
    \/ \E ta \in CorruptPairs, value \in MalformedPayloads :
          BEnter(1, BCall("set", generate_state_key(ta[1], ta[2]), value, 0))
    \/ BBody(1)
    \/ BExit(1)

SpecCorrupt == InitCorrupt /\ [][NextCorrupt]_vars

(* --------------------------- StateStoreManager --------------------------- *)

\* self._cache_ttl_seconds
CacheTtlSeconds == 300

\* cache_key = f"{thread_id}:{agent_name}"
CacheKey(thread_id, agent_name) == <<thread_id, agent_name>>

\* asyncio.create_task(health_monitor()) / asyncio.create_task(backup_task()):
\* the coroutine has not run yet.
CreatedLoop == [NoLoop EXCEPT !.at = "created"]

\* A loop without `except Exception`: an exception of an iteration ends it.
LoopAfterUncaught(l, event) ==
    CASE event = "start" -> [l EXCEPT !.at = "sleeping"]
      [] event = "ok" -> [l EXCEPT !.iterations = @ + 1, !.last = "ok"]
      [] event = "exception" ->
            [l EXCEPT !.at = "ended", !.last = "exception", !.ended_by = "error"]
      [] event = "cancel" ->
            IF l.at = "created"
            THEN [l EXCEPT !.at = "ended", !.ended_by = "cancelled"]
            ELSE IF l.at = "sleeping"
            THEN [l EXCEPT !.at = "ended", !.ended_by = "break"]
            ELSE l

\* The coroutine health_monitor / backup_task after an event:
\*   "start": its first step, up to `await asyncio.sleep(...)` inside the try;
\*   "ok": the sleep and _perform_health_check / _perform_backup return, the
\*       loop sleeps again;
\*   "exception": one of them raises an Exception, `except Exception` logs it
\*       and the loop sleeps again;
\*   "cancel": task.cancel() and `await task` of shutdown: a coroutine that
\*       never ran ends with the CancelledError thrown into it, one waiting
\*       inside the try leaves the loop by `except asyncio.CancelledError:
\*       break` and returns.
LoopAfter(l, event) ==
    CASE event = "start" -> [l EXCEPT !.at = "sleeping"]
      [] event = "ok" -> [l EXCEPT !.iterations = @ + 1, !.last = "ok"]
      [] event = "exception" -> [l EXCEPT !.caught = @ + 1, !.last = "exception"]
      [] event = "cancel" ->
            IF l.at = "created"
            THEN [l EXCEPT !.at = "ended", !.ended_by = "cancelled"]
            ELSE IF l.at = "sleeping"
            THEN [l EXCEPT !.at = "ended", !.ended_by = "break"]
            ELSE l

\* The manager's fields after initialize(): the store is created and the
\* monitoring tasks the configuration asks for are started.
Initialized(m) ==
    [m EXCEPT !.store = TRUE,
              !.health_check_task = IF m.metrics_enabled THEN "running" ELSE @,
              !.backup_task = IF m.backup_enabled THEN "running" ELSE @,
              !.loops.health_check_task = IF m.metrics_enabled THEN CreatedLoop ELSE @,
              !.loops.backup_task = IF m.backup_enabled THEN CreatedLoop ELSE @]

\* An _ensure_store that never initializes.
EnsureStoreSkipped(m) == m

\* _ensure_store: `if not self._store: await self.initialize()`
EnsureStore(m) == IF ~m.store THEN Initialized(m) ELSE m

\* The tables the manager's store works on after _ensure_store: those of a
\* new MemoryStateStore when one was created.
EnsureStoreTables(m, B) == IF ~m.store THEN EmptyTables ELSE B

\* A task may call the manager when it is in no call.
CanCallManager(p) ==
    pc[p] \in {"idle", "done"} /\ manager.call[p].stage # "store"

\* The record of a call of manager method op: its arguments, how far it has
\* come (stage), what answered it (served), the error it raised (err).
\* after_shutdown and constructed record that shutdown() had returned before
\* the call and that the call created the store; the code keeps neither.
ManagerCall(op, thread_id, agent_name, state_data, stage, served) ==
    [op |-> op, thread |-> thread_id, agent |-> agent_name, data |-> state_data,
     stage |-> stage, served |-> served,
     after_shutdown |-> manager.shutdown_completed,
     constructed |-> FALSE, err |-> ""]

\* StateStoreManager.initialize.  The health check it ends with sets, gets
\* and deletes its test key, which leaves the tables of the new store empty.
MgrInitialize(p) ==
    /\ CanCallManager(p)
    /\ LockFree(lock)
    /\ SetTables(EmptyTables)
    /\ manager' = [Initialized(manager) EXCEPT
                      !.call[p] = ManagerCall("initialize", <<>>, <<>>, EmptyDict,
                                              "returned", "")]
    /\ UNCHANGED <<now, config, lock, pc, frame>>

\* A cleanup that releases nothing.
StoreCleanupKeeps(m, B) == B

\* self._store.cleanup() of shutdown: MemoryStateStore.cleanup calls the
\* backend's cleanup.
StoreCleanup(m, B) == IF m.store THEN BackendCleanupTables(B) ELSE B

\* StateStoreManager.shutdown: the tasks are cancelled, the store cleaned up,
\* the caches cleared; self._store is left as it is.
MgrShutdown(p) ==
    /\ CanCallManager(p)
    /\ LockFree(lock)
    /\ SetTables(StoreCleanup(manager, Tables))
    /\ manager' = [manager EXCEPT
                      !.health_check_task = IF @ = "running" THEN "cancelled" ELSE @,
                      !.backup_task = IF @ = "running" THEN "cancelled" ELSE @,
                      !.loops = [task \in DOMAIN @ |-> LoopAfter(@[task], "cancel")],
                      !.metadata_cache = EmptyDict,
                      !.cache_expiry = EmptyDict,
                      !.shutdown_completed = TRUE,
                      !.call[p] = ManagerCall("shutdown", <<>>, <<>>, EmptyDict,
                                              "returned", "")]
    /\ UNCHANGED <<now, config, lock, pc, frame>>

\* The manager operations that validate their identifiers themselves.
ValidatingOps == {"save", "load", "delete"}

\* The agent the validator holds a schema for when one is registered:
\* register_schema(A1, {"a": "integer"}, required_fields=["a"]).
SchemaAgent == <<"a", "1">>

\* The schema and the required fields registered for SchemaAgent.
AgentSchema == [a |-> "integer"]
AgentRequired == {"a"}

\* isinstance(value, classes): bool is a subclass of int.
IsInstance(value, classes) ==
    \/ value.t \in classes
    \/ value.t = "bool" /\ "int" \in classes

\* StateValidator._check_type for a type tag; an unknown tag allows any value.
check_type(value, expected_type) ==
    CASE expected_type = "string" -> IsInstance(value, {"str"})
      [] expected_type = "integer" -> IsInstance(value, {"int"})
      [] expected_type = "float" -> IsInstance(value, {"int", "float"})
      [] expected_type = "boolean" -> IsInstance(value, {"bool"})
      [] expected_type = "array" -> IsInstance(value, {"list"})
      [] expected_type = "object" -> IsInstance(value, {"dict"})
      [] OTHER -> TRUE

\* StateValidator.validate_state for an agent with a schema: whether it
\* returns rather than raises (no required field missing, no field of the
\* schema present with a value _check_type refuses).
SchemaAccepts(schema, required, state_data) ==
    /\ \A field \in required : field \in DOMAIN state_data
    /\ \A field \in DOMAIN schema :
          field \in DOMAIN state_data => check_type(state_data[field], schema[field])

\* StateValidator.validate_state as the manager calls it: whether it returns
\* rather than raises.
ValidateMerged(m, agent_name, state_data) ==
    \/ ~m.schema_registered
    \/ agent_name # SchemaAgent
    \/ SchemaAccepts(AgentSchema, AgentRequired, state_data)
    \/ \E k \in DOMAIN storage :
          /\ Len(k) = 4 /\ k[4] = agent_name /\ IsContainer(storage[k])
          /\ SchemaAccepts(AgentSchema, AgentRequired,
                           MergeData(storage[k].doc.data, state_data))

validate_state(m, agent_name, state_data) ==
    \/ ~m.schema_registered
    \/ agent_name # SchemaAgent
    \/ SchemaAccepts(AgentSchema, AgentRequired, state_data)

\* Metrics that count the calls and never an error.
RecordOperationNoError(m, op, success) ==
    IF ~m.metrics_enabled THEN m
    ELSE [m EXCEPT !.metrics.operations_count[op] = @ + 1]

\* StateStoreMetrics.record_operation, when self._metrics is set.
RecordOperation(m, op, success) ==
    IF ~m.metrics_enabled THEN m
    ELSE [m EXCEPT !.metrics.operations_count[op] = @ + 1,
                   !.metrics.error_count[op] = IF success THEN @ ELSE @ + 1]

\* Room in the counters for one more sample of op.
CanRecord(m, op) ==
    op \in MeasuredOps /\ m.metrics_enabled => m.metrics.operations_count[op] < MaxSamples

\* get_state_metadata finds an unexpired cache entry.
CacheHit(m, cache_key, t) ==
    /\ cache_key \in DOMAIN m.metadata_cache
    /\ cache_key \in DOMAIN m.cache_expiry
    /\ t < m.cache_expiry[cache_key]

\* clear_thread_state: the cache without the keys that start with
\* f"{thread_id}:".  Cache keys are made of validated identifiers, which hold
\* no ":", so these are the keys whose thread is thread_id.
CacheWithoutThread(m, thread_id) ==
    LET keys_to_remove == {k \in DOMAIN m.metadata_cache : k[1] = thread_id}
    IN [m EXCEPT !.metadata_cache = Restrict(@, DOMAIN @ \ keys_to_remove),
                 !.cache_expiry = Restrict(@, DOMAIN @ \ keys_to_remove)]

\* The arguments fail the validation the manager method op does itself.
ManagerRejects(m, op, thread_id, agent_name, state_data) ==
    /\ op \in ValidatingOps
    /\ \/ ~validate_thread_id(thread_id)
       \/ ~validate_agent_name(agent_name)
       \/ op = "save" /\ ~validate_state(m, agent_name, state_data)

\* A state operation of the manager up to its call of the store: validation
\* (its failure recorded and raised), the cache lookup of get_state_metadata,
\* _ensure_store, the cache invalidation of clear_thread_state.
MgrCall(p, op, thread_id, agent_name, state_data) ==
    LET cache_key == CacheKey(thread_id, agent_name)
        entered(stage, served) ==
            ManagerCall(op, thread_id, agent_name, state_data, stage, served)
        ensured == EnsureStore(manager)
    IN /\ CanCallManager(p)
       /\ CanRecord(manager, op)
       /\ IF ManagerRejects(manager, op, thread_id, agent_name, state_data)
          THEN /\ manager' = [RecordOperation(manager, op, FALSE) EXCEPT
                                 !.call[p] = [entered("raised", "") EXCEPT
                                                 !.err = "StorageError"]]
               /\ UNCHANGED <<tables, pc, frame>>
          ELSE IF op = "get_state_metadata" /\ CacheHit(manager, cache_key, now)
          THEN /\ manager' = [manager EXCEPT !.call[p] = entered("returned", "cache")]
               /\ UNCHANGED <<tables, pc, frame>>
          ELSE /\ LockFree(lock)
               /\ SetTables(EnsureStoreTables(manager, Tables))
               /\ manager' =
                     [(IF op = "clear_thread_state"
                       THEN CacheWithoutThread(ensured, thread_id) ELSE ensured)
                        EXCEPT !.call[p] = [entered("store", "") EXCEPT
                                               !.constructed = ~manager.store]]
               /\ pc' = [pc EXCEPT ![p] = "m_call"]
               /\ frame' = [frame EXCEPT ![p] = IdleFrame]
       /\ UNCHANGED <<now, config, lock>>

\* self._store.<op>(...) as the manager calls it (merge_with_existing and
\* tags at the manager's defaults).
MgrStoreCall(p) ==
    LET c == manager.call[p]
    IN /\ pc[p] = "m_call"
       /\ c.stage = "store"
       /\ CASE c.op = "save" -> SaveCall(p, c.thread, c.agent, c.data, TRUE, {})
            [] c.op = "load" -> Load(p, c.thread, c.agent)
            [] c.op = "delete" -> Delete(p, c.thread, c.agent)
            [] c.op = "get_state_metadata" -> GetStateMetadata(p, c.thread, c.agent)
            [] c.op = "list_thread_agents" -> ListThreadAgents(p, c.thread)
            [] c.op = "list_agent_threads" -> ListAgentThreads(p, c.agent)
            [] c.op = "clear_thread_state" -> ClearThreadState(p, c.thread)

\* A cache that keeps the entry of a deleted state.
CacheAfterKeepsDeleted(m, op, cache_key, ret, t) ==
    LET put == [m EXCEPT
                  !.metadata_cache = [k \in DOMAIN @ \cup {cache_key} |->
                                         IF k = cache_key THEN ret.metadata ELSE @[k]],
                  !.cache_expiry = [k \in DOMAIN @ \cup {cache_key} |->
                                         IF k = cache_key THEN t + CacheTtlSeconds ELSE @[k]]]
        pop == [m EXCEPT
                  !.metadata_cache = Restrict(@, DOMAIN @ \ {cache_key}),
                  !.cache_expiry = Restrict(@, DOMAIN @ \ {cache_key})]
    IN CASE op = "save" -> put
         [] op = "load" -> IF ret.found THEN put ELSE pop
         [] OTHER -> m

\* The cache after the store has returned ret to manager method op.
CacheAfter(m, op, cache_key, ret, t) ==
    LET put == [m EXCEPT
                  !.metadata_cache = [k \in DOMAIN @ \cup {cache_key} |->
                                         IF k = cache_key THEN ret.metadata ELSE @[k]],
                  !.cache_expiry = [k \in DOMAIN @ \cup {cache_key} |->
                                         IF k = cache_key THEN t + CacheTtlSeconds ELSE @[k]]]
        pop == [m EXCEPT
                  !.metadata_cache = Restrict(@, DOMAIN @ \ {cache_key}),
                  !.cache_expiry = Restrict(@, DOMAIN @ \ {cache_key})]
    IN CASE op = "save" -> put
         [] op = "load" -> IF ret.found THEN put ELSE pop
         [] op = "delete" -> pop
         [] OTHER -> m

\* The metrics after manager method op has its result from the store: save
\* and load record a success, delete records one when a state was deleted.
MetricsAfter(m, op, deleted) ==
    IF op \in {"save", "load"} \/ (op = "delete" /\ deleted)
    THEN RecordOperation(m, op, TRUE)
    ELSE m

\* The cumulative totals after manager method op has its result from the
\* store: `self._metrics.total_states_stored += 1` after a save,
\* total_states_loaded after a load that found a state, total_states_deleted
\* after a delete that deleted one.
TotalsAfter(m, op, ret, deleted) ==
    IF ~m.metrics_enabled THEN m
    ELSE CASE op = "save" -> [m EXCEPT !.metrics.total_states_stored = @ + 1]
           [] op = "load" /\ ret.found ->
                 [m EXCEPT !.metrics.total_states_loaded = @ + 1]
           [] op = "delete" /\ deleted ->
                 [m EXCEPT !.metrics.total_states_deleted = @ + 1]
           [] OTHER -> m

\* The rest of the manager method once the store has returned or raised: the
\* cache update and the metrics, and the return or the re-raise (`raise`) of
\* the store's error.
MgrReturn(p) ==
    LET c == manager.call[p]
        f == frame[p]
    IN /\ c.stage = "store"
       /\ pc[p] = "done"
       /\ manager' =
             IF f.err # ""
             THEN [(IF c.op \in MeasuredOps
                    THEN RecordOperation(manager, c.op, FALSE) ELSE manager)
                     EXCEPT !.call[p] = [c EXCEPT !.stage = "raised",
                                                  !.served = "store",
                                                  !.err = f.err]]
             ELSE [TotalsAfter(MetricsAfter(CacheAfter(manager, c.op,
                                                       CacheKey(c.thread, c.agent),
                                                       f.ret, now),
                                            c.op, f.ret_bool),
                               c.op, f.ret, f.ret_bool)
                     EXCEPT !.call[p] = [c EXCEPT !.stage = "returned",
                                                  !.served = "store"]]
       /\ UNCHANGED <<now, config, lock, tables, pc, frame>>

\* The state data of the manager calls.
MgrData == {[a |-> PyInt(1)]}

\* The agents of the manager calls.
MgrAgents == {A1}

\* The thread ids of the manager calls.
MgrThreads == {T1}

MgrOps == {"load", "delete", "get_state_metadata", "list_thread_agents",
           "list_agent_threads", "clear_thread_state"}

InitMgr ==
    /\ now = 0
    /\ default_ttl_seconds \in {0, 1}
    /\ max_size_bytes = StoreMaxSizeBytes
    /\ max_states_per_thread = DefaultMaxStatesPerThread
    /\ storage = EmptyDict
    /\ metadata = EmptyDict
    /\ access_times = <<>>
    /\ total_size_bytes = 0
    /\ lock = 0
    /\ pc = [p \in Procs |-> "idle"]
    /\ frame = [p \in Procs |-> IdleFrame]
    /\ manager \in {NewManager(m, b) : m \in BOOLEAN, b \in BOOLEAN}

\* One task drives one manager through its life.  Its threads hold fewer
\* agents than max_states_per_thread, so _enforce_thread_limits never goes
\* past its test.
NextMgr ==
    \/ Tick
    \/ MgrInitialize(1)
    \/ MgrShutdown(1)
    \/ \E t \in MgrThreads, a \in MgrAgents, d \in MgrData :
          /\ StoredVersion(generate_state_key(t, a)) < MaxVersion
          /\ MgrCall(1, "save", t, a, d)
    \/ \E op \in MgrOps, t \in MgrThreads, a \in MgrAgents :
          MgrCall(1, op, t, a, EmptyDict)
    \/ MgrStoreCall(1)
    \/ SaveList(1)
    \/ SaveSet(1)
    \/ ClearDelete(1)
    \/ MgrReturn(1)

SpecMgr == InitMgr /\ [][NextMgr]_vars

(* ---------------- manager calls that fail ------------------------------- *)

\* Thread ids: a valid one, the empty string, one with a character outside
\* the pattern.
ErrThreads == {T1, <<>>, <<"t", ":">>}

\* Agent names: likewise.
ErrAgents == {A1, <<>>}

\* State data: one that satisfies the schema of SchemaAgent, one that lacks
\* its required field, one that holds a string in its integer field.
ErrData == {[a |-> PyInt(1)], [b |-> PyInt(2)], [a |-> PyStr]}

ErrOps == {"load", "delete", "get_state_metadata", "list_thread_agents",
           "list_agent_threads", "clear_thread_state"}

\* A manager that was never initialized, metrics disabled, with or without a
\* schema registered for SchemaAgent.
InitMgrErr ==
    /\ now = 0
    /\ default_ttl_seconds = 0
    /\ max_size_bytes = StoreMaxSizeBytes
    /\ max_states_per_thread = DefaultMaxStatesPerThread
    /\ storage = EmptyDict
    /\ metadata = EmptyDict
    /\ access_times = <<>>
    /\ total_size_bytes = 0
    /\ lock = 0
    /\ pc = [p \in Procs |-> "idle"]
    /\ frame = [p \in Procs |-> IdleFrame]
    /\ manager \in {[NewManager(FALSE, FALSE) EXCEPT !.schema_registered = s] :
                      s \in BOOLEAN}

\* One task calls the manager with valid and invalid arguments.
NextMgrErr ==
    \/ MgrInitialize(1)
    \/ \E t \in ErrThreads, a \in ErrAgents, d \in ErrData :
          /\ StoredVersion(generate_state_key(t, a)) < MaxVersion
          /\ MgrCall(1, "save", t, a, d)
    \/ \E op \in ErrOps, t \in ErrThreads, a \in ErrAgents :
          MgrCall(1, op, t, a, EmptyDict)
    \/ MgrStoreCall(1)
    \/ SaveList(1)
    \/ SaveSet(1)
    \/ ClearDelete(1)
    \/ MgrReturn(1)

SpecMgrErr == InitMgrErr /\ [][NextMgrErr]_vars

(* ---------------- failures of a manager with metrics -------------------- *)

\* Thread ids of the measured calls: a valid one and the empty string.
MetricsThreads == {T1, <<>>}

\* State data of the measured saves: one that satisfies the schema of
\* SchemaAgent and one that lacks its required field.
MetricsData == {[a |-> PyInt(1)], [b |-> PyInt(2)]}

\* A manager with metrics enabled and a schema registered for SchemaAgent,
\* never initialized.
InitMetrics ==
    /\ now = 0
    /\ default_ttl_seconds = 0
    /\ max_size_bytes = StoreMaxSizeBytes
    /\ max_states_per_thread = DefaultMaxStatesPerThread
    /\ storage = EmptyDict
    /\ metadata = EmptyDict
    /\ access_times = <<>>
    /\ total_size_bytes = 0
    /\ lock = 0
    /\ pc = [p \in Procs |-> "idle"]
    /\ frame = [p \in Procs |-> IdleFrame]
    /\ manager = [NewManager(TRUE, FALSE) EXCEPT !.schema_registered = TRUE]

\* One task saves, loads and deletes through the manager, with valid and
\* invalid arguments; the payload of (T1, A1) may be overwritten with
\* malformed bytes through the backend of the manager's store, which makes
\* the store's load fail.
NextMetrics ==
    \/ \E t \in MetricsThreads, d \in MetricsData :
          /\ StoredVersion(generate_state_key(t, A1)) < MaxVersion
          /\ MgrCall(1, "save", t, A1, d)
    \/ \E op \in {"load", "delete"}, t \in MetricsThreads :
          MgrCall(1, op, t, A1, EmptyDict)
    \/ MgrStoreCall(1)
    \/ SaveList(1)
    \/ SaveSet(1)
    \/ MgrReturn(1)
    \/ \E value \in MalformedPayloads :
          /\ manager.store
          /\ CanCallManager(1)
          /\ BEnter(1, BCall("set", generate_state_key(T1, A1), value, 0))
    \/ BBody(1)
    \/ BExit(1)

SpecMetrics == InitMetrics /\ [][NextMetrics]_vars

(* ----------------- validate_thread_id, validate_agent_name -------------- *)

\* The characters of the short identifiers checked: two the pattern allows
\* besides a hyphen and an underscore, and a space, a colon, a line break.
CheckedChars == {"a", "1", "-", "_", " ", ":", "\n"}

\* The most characters of an identifier whose every character is drawn.
MaxDrawnLen == 2

\* A string of n characters c.
Repeated(c, n) == [i \in 1..n |-> c]

\* The identifiers checked: every string of at most MaxDrawnLen checked
\* characters, and strings of the longest length allowed and one more, with
\* and without a final line break.
CheckedStrings ==
    UNION {[1..n -> CheckedChars] : n \in 0..MaxDrawnLen}
    \cup {Repeated("t", n) : n \in {MaxAgentNameLen, MaxAgentNameLen + 1,
                                       MaxThreadIdLen, MaxThreadIdLen + 1}}
    \cup {Repeated("t", n) \o <<"\n">> : n \in {MaxAgentNameLen - 1, MaxAgentNameLen,
                                                    MaxThreadIdLen - 1, MaxThreadIdLen}}

\* The arguments checked: None and the strings.
CheckedArguments ==
    {[kind |-> "none", content |-> <<>>]}
    \cup {[kind |-> "str", content |-> str] : str \in CheckedStrings}

\* A call of validate_thread_id or validate_agent_name about to be made.
InitIdCheck ==
    /\ now = 0
    /\ default_ttl_seconds = 0
    /\ max_size_bytes = StoreMaxSizeBytes
    /\ max_states_per_thread = DefaultMaxStatesPerThread
    /\ storage = EmptyDict
    /\ metadata = EmptyDict
    /\ access_times = <<>>
    /\ total_size_bytes = 0
    /\ lock = 0
    /\ pc = [p \in Procs |-> "idle"]
    /\ manager = NewManager(FALSE, FALSE)
    /\ \E op \in {"validate_thread_id", "validate_agent_name"},
          argument \in CheckedArguments :
          frame = [p \in Procs |->
                     IF p = 1
                     THEN [op |-> op, ret_bool |-> FALSE, argument |-> argument]
                     ELSE IdleFrame]

\* validate_thread_id(thread_id) / validate_agent_name(agent_name): None is
\* refused by `not isinstance(..., str)`, a string is checked.
ValidateIdentifier(p) ==
    LET f == frame[p]
        valid == /\ f.argument.kind = "str"
                 /\ IF f.op = "validate_thread_id"
                    THEN validate_thread_id(f.argument.content)
                    ELSE validate_agent_name(f.argument.content)
    IN /\ pc[p] = "idle"
       /\ f.op \in {"validate_thread_id", "validate_agent_name"}
       /\ pc' = [pc EXCEPT ![p] = "done"]
       /\ frame' = [frame EXCEPT ![p].ret_bool = valid]
       /\ UNCHANGED <<now, config, lock, tables, manager>>

NextIdCheck == \E p \in Procs : ValidateIdentifier(p)

SpecIdCheck == InitIdCheck /\ [][NextIdCheck]_vars

(* --------------------------- StateValidator ----------------------------- *)

\* The fields of the schemas and of the data validated.
ValidatedFields == {"a", "b"}

\* The type tags of a schema.
TypeTags == {"string", "integer", "float", "boolean", "array", "object"}

\* The values of the data validated: one of each class.
ValidatedValues == {PyStr, PyInt(1), PyFloat, PyBool, PyList, PyDict({})}

\* The schemas: a type tag for some of the fields.
Schemas == UNION {[S -> TypeTags] : S \in SUBSET ValidatedFields}

\* The state data: a value for some of the fields.
ValidatedData == UNION {[S -> ValidatedValues] : S \in SUBSET ValidatedFields}

\* A call validate_state(agent_name, state_data) about to be made on a
\* validator that holds a schema and required fields for the agent
\* (registered) or none.
InitValidate ==
    /\ now = 0
    /\ default_ttl_seconds = 0
    /\ max_size_bytes = StoreMaxSizeBytes
    /\ max_states_per_thread = DefaultMaxStatesPerThread
    /\ storage = EmptyDict
    /\ metadata = EmptyDict
    /\ access_times = <<>>
    /\ total_size_bytes = 0
    /\ lock = 0
    /\ pc = [p \in Procs |-> "idle"]
    /\ manager = NewManager(FALSE, FALSE)
    /\ \E registered \in BOOLEAN, schema \in Schemas,
          required \in SUBSET ValidatedFields, state_data \in ValidatedData :
          frame = [p \in Procs |->
                     IF p = 1
                     THEN [op |-> "validate_state", data |-> state_data,
                           err |-> "", registered |-> registered,
                           schema |-> schema, required |-> required]
                     ELSE IdleFrame]

\* StateValidator.validate_state: returns True, or raises StorageError.
ValidateState(p) ==
    LET f == frame[p]
        accepted == ~f.registered \/ SchemaAccepts(f.schema, f.required, f.data)
    IN /\ pc[p] = "idle"
       /\ f.op = "validate_state"
       /\ pc' = [pc EXCEPT ![p] = "done"]
       /\ frame' = [frame EXCEPT ![p].err = IF accepted THEN "" ELSE "StorageError"]
       /\ UNCHANGED <<now, config, lock, tables, manager>>

NextValidate == \E p \in Procs : ValidateState(p)

SpecValidate == InitValidate /\ [][NextValidate]_vars

(* ------------------- listing agents and threads ------------------------- *)

\* The (thread, agent) pairs of the states saved, deleted and listed.
ListPairs == {<<T1, A1>>, <<T1, A2>>, <<T2, A1>>}

\* max_states_per_thread of the stores whose states are listed.
ListLimits == {1, 2}

InitList == InitStore({0, 1}, {StoreMaxSizeBytes}, ListLimits)

\* One task saves states in two threads, lets time pass, deletes and lists.
NextList ==
    \/ Tick
    \/ \E ta \in ListPairs :
          SaveCall(1, ta[1], ta[2], [a |-> PyInt(1)], FALSE, {})
    \/ SaveStep(1)
    \/ \E ta \in ListPairs : Delete(1, ta[1], ta[2])
    \/ \E t \in {T1, T2} : ListThreadAgents(1, t)
    \/ \E a \in {A1, A2} : ListAgentThreads(1, a)

SpecList == InitList /\ [][NextList]_vars

(* ------------------- clearing the state of a thread --------------------- *)

\* The (thread, agent) pairs of the states saved and cleared.
ClearPairs == {<<T1, A1>>, <<T1, A2>>, <<T2, A1>>}

InitClear == InitStore({0, 1}, {StoreMaxSizeBytes}, {DefaultMaxStatesPerThread})

\* One task saves states in two threads, lets time pass, clears a thread and
\* loads.  The threads hold fewer agents than max_states_per_thread.
NextClear ==
    \/ Tick
    \/ \E ta \in ClearPairs :
          SaveCall(1, ta[1], ta[2], [a |-> PyInt(1)], FALSE, {})
    \/ SaveList(1)
    \/ SaveSet(1)
    \/ \E ta \in ClearPairs : Load(1, ta[1], ta[2])
    \/ \E t \in {T1, T2} : ClearThreadState(1, t)
    \/ ClearDelete(1)

SpecClear == InitClear /\ [][NextClear]_vars

(* ------------------------- periodic tasks ------------------------------- *)

\* The most iterations, and the most caught exceptions, of one loop.
MaxIterations == 2

\* The event loop runs the coroutine of a periodic task: its first step, or
\* one iteration of its loop, which completes or raises.
LoopStep(task, event) ==
    LET l == manager.loops[task]
    IN /\ CASE event = "start" -> l.at = "created"
            [] event = "ok" -> l.at = "sleeping" /\ l.iterations < MaxIterations
            [] event = "exception" -> l.at = "sleeping" /\ l.caught < MaxIterations
       /\ manager' = [manager EXCEPT !.loops[task] = LoopAfter(l, event)]
       /\ UNCHANGED <<now, config, lock, tables, pc, frame>>

\* A manager that is initialized and shut down while its periodic tasks run.
InitLoops ==
    /\ now = 0
    /\ default_ttl_seconds = 0
    /\ max_size_bytes = StoreMaxSizeBytes
    /\ max_states_per_thread = DefaultMaxStatesPerThread
    /\ storage = EmptyDict
    /\ metadata = EmptyDict
    /\ access_times = <<>>
    /\ total_size_bytes = 0
    /\ lock = 0
    /\ pc = [p \in Procs |-> "idle"]
    /\ frame = [p \in Procs |-> IdleFrame]
    /\ manager \in {NewManager(m, b) : m \in BOOLEAN, b \in BOOLEAN}

NextLoops ==
    \/ /\ ~manager.store
       /\ MgrInitialize(1)
    \/ MgrShutdown(1)
    \/ \E task \in {"health_check_task", "backup_task"},
          event \in {"start", "ok", "exception"} : LoopStep(task, event)

SpecLoops == InitLoops /\ [][NextLoops]_vars

(* ------------------------- bulk operations ------------------------------ *)

\* The most items of one bulk call.
MaxItems == 3

\* bulk_save_states / bulk_load_states entered: `results = []`, and with no
\* item the loop body never runs and the empty list is returned.  attempted
\* lists the items whose call was made; the code keeps no such list.
BulkStarted(op, items) ==
    [op |-> op, stage |-> IF items = <<>> THEN "returned" ELSE "running",
     items |-> items, results |-> <<>>, attempted |-> <<>>, err |-> ""]

\* A loop that goes on to the next item when an item has raised.
BulkAfterSkipsFailed(b, c, ret) ==
    LET attempted == Append(b.attempted, <<c.thread, c.agent, c.data>>)
    IN [b EXCEPT !.results = IF c.stage = "raised" THEN @ ELSE Append(@, ret),
                 !.attempted = attempted,
                 !.stage = IF Len(attempted) = Len(b.items)
                           THEN "returned" ELSE "running"]

\* The bulk call after the call c of one item has ended with ret:
\* `results.append(stored_state)` and the next turn of the loop, `return
\* results` after the last item; an exception of the item's call leaves the
\* method, the loop has no try.
BulkAfter(b, c, ret) ==
    LET attempted == Append(b.attempted, <<c.thread, c.agent, c.data>>)
    IN IF c.stage = "raised"
       THEN [b EXCEPT !.stage = "raised", !.attempted = attempted, !.err = c.err]
       ELSE [b EXCEPT !.results = Append(@, ret),
                      !.attempted = attempted,
                      !.stage = IF Len(attempted) = Len(b.items)
                                THEN "returned" ELSE "running"]

\* The manager method a bulk method calls for each item.
ItemOp(op) == IF op = "bulk_save" THEN "save" ELSE "load"

\* bulk_save_states(states) / bulk_load_states(requests) up to the loop.  An
\* item is <<thread_id, agent_name, state_data>>, with empty state_data in a
\* request of bulk_load_states.
BulkCall(p, op, items) ==
    /\ CanCallManager(p)
    /\ manager.bulk[p].stage # "running"
    /\ manager' = [manager EXCEPT !.bulk[p] = BulkStarted(op, items),
                                  !.call[p] = NoCall]
    /\ UNCHANGED <<now, config, lock, tables, pc, frame>>

\* `await self.save_agent_state(thread_id, agent_name, state_data,
\* merge_with_existing)` / `await self.load_agent_state(thread_id,
\* agent_name)` for the next item of the loop.
BulkItem(p) ==
    LET b == manager.bulk[p]
        item == b.items[Len(b.attempted) + 1]
    IN /\ b.stage = "running"
       /\ manager.call[p].stage \in {"none", "collected"}
       /\ MgrCall(p, ItemOp(b.op), item[1], item[2], item[3])

\* The item's call has returned or raised.
BulkCollect(p) ==
    LET b == manager.bulk[p]
        c == manager.call[p]
    IN /\ b.stage = "running"
       /\ c.stage \in {"returned", "raised"}
       /\ manager' = [manager EXCEPT !.bulk[p] = BulkAfter(b, c, frame[p].ret),
                                     !.call[p].stage = "collected"]
       /\ UNCHANGED <<now, config, lock, tables, pc, frame>>

\* The items of the bulk calls: two valid ones and one with an empty
\* thread id, which save_agent_state and load_agent_state reject.
BulkItems(op) ==
    IF op = "bulk_save"
    THEN {<<T1, A1, [a |-> PyInt(1)]>>, <<T1, A2, [b |-> PyInt(2)]>>,
          <<<<>>, A1, [a |-> PyInt(1)]>>}
    ELSE {<<T1, A1, EmptyDict>>, <<T1, A2, EmptyDict>>, <<<<>>, A1, EmptyDict>>}

\* The lists of at most MaxItems items.
BulkLists(op) ==
    UNION {[1..n -> BulkItems(op)] : n \in 0..MaxItems}

\* The saves of items leave every version within MaxVersion.
BulkFits(op, items) ==
    op = "bulk_save" =>
        \A i \in DOMAIN items :
            LET same == {j \in DOMAIN items : items[j] = items[i]}
            IN validate_thread_id(items[i][1]) =>
                  StoredVersion(generate_state_key(items[i][1], items[i][2]))
                      + Cardinality(same) <= MaxVersion

\* A manager with metrics disabled and no schema, its store never expiring.
InitBulk ==
    /\ now = 0
    /\ default_ttl_seconds = 0
    /\ max_size_bytes = StoreMaxSizeBytes
    /\ max_states_per_thread = DefaultMaxStatesPerThread
    /\ storage = EmptyDict
    /\ metadata = EmptyDict
    /\ access_times = <<>>
    /\ total_size_bytes = 0
    /\ lock = 0
    /\ pc = [p \in Procs |-> "idle"]
    /\ frame = [p \in Procs |-> IdleFrame]
    /\ manager = NewManager(FALSE, FALSE)

\* One task makes bulk calls, one after the other.
NextBulk ==
    \/ \E op \in {"bulk_save", "bulk_load"} :
          \E items \in BulkLists(op) :
             /\ BulkFits(op, items)
             /\ BulkCall(1, op, items)
    \/ BulkItem(1)
    \/ MgrStoreCall(1)
    \/ SaveList(1)
    \/ SaveSet(1)
    \/ MgrReturn(1)
    \/ BulkCollect(1)

SpecBulk == InitBulk /\ [][NextBulk]_vars

(* ------------------ tasks that keep to their own key -------------------- *)

\* The (thread, agent) pair each task works on: two agents of one thread.
OwnPair(p) == IF p = 1 THEN <<T1, A1>> ELSE <<T1, A2>>

\* The data of a task's saves: a first state and an update of one of its
\* fields that adds another.
OwnData == {[id |-> PyInt(1), step |-> PyInt(1)], [step |-> PyInt(2), n |-> PyInt(3)]}

InitOwn == InitStore({0}, {StoreMaxSizeBytes}, {DefaultMaxStatesPerThread})

\* Two tasks on one event loop; each saves, updates, loads and deletes the
\* state of its own pair, suspended at each await of a backend operation
\* while the other runs.  Neither the capacity nor the limit of the thread
\* is reached.  The calls are made within one tick of the clock.
NextOwn ==
    \/ \E p \in Procs, d \in OwnData, m \in BOOLEAN :
          /\ StoredVersion(generate_state_key(OwnPair(p)[1], OwnPair(p)[2])) < MaxVersion
          /\ SaveCall(p, OwnPair(p)[1], OwnPair(p)[2], d, m, {})
    \/ \E p \in Procs : SaveList(p)
    \/ \E p \in Procs : SaveSet(p)
    \/ \E p \in Procs : Load(p, OwnPair(p)[1], OwnPair(p)[2])
    \/ \E p \in Procs : Delete(p, OwnPair(p)[1], OwnPair(p)[2])

SpecOwn == InitOwn /\ [][NextOwn]_vars

(* ----------------- saving again what was destroyed ---------------------- *)

\* max_size_bytes of a backend that has room for one envelope of the model's
\* data and not for two.
OneEnvelopeMaxSizeBytes == 300

\* The data of the state the store starts with, and of the saves.
FirstData == [a |-> PyInt(1), b |-> PyInt(2)]
AgainData == [c |-> PyInt(3)]

\* The configurations of the store, as <<default_ttl_seconds, max_size_bytes,
\* max_states_per_thread>>: entries that expire, a backend with room for one
\* envelope, a thread with room for one agent, and none of these.
AgainConfigs ==
    {<<1, StoreMaxSizeBytes, DefaultMaxStatesPerThread>>,
     <<0, OneEnvelopeMaxSizeBytes, DefaultMaxStatesPerThread>>,
     <<0, StoreMaxSizeBytes, 1>>,
     <<0, StoreMaxSizeBytes, DefaultMaxStatesPerThread>>}

\* A store on which save_agent_state(T1, A1, FirstData) has returned at time
\* 0: the envelope of version 1 is under its key.
InitAgain ==
    /\ now = 0
    /\ \E c \in AgainConfigs :
          /\ default_ttl_seconds = c[1]
          /\ max_size_bytes = c[2]
          /\ max_states_per_thread = c[3]
    /\ LET B == BackendSet(EmptyTables, generate_state_key(T1, A1),
                           serialize_container(FirstData,
                               SaveMetadata(NoState, FirstData, {}, 0)),
                           0, default_ttl_seconds, 0, max_size_bytes)
       IN /\ storage = B.storage
          /\ metadata = B.metadata
          /\ access_times = B.access_times
          /\ total_size_bytes = B.total_size_bytes
    /\ lock = 0
    /\ pc = [p \in Procs |-> "idle"]
    /\ frame = [p \in Procs |-> IdleFrame]
    /\ manager = NewManager(TRUE, FALSE)

\* One task saves, loads, deletes and clears, one call after the other, while
\* time passes; the state of (T1, A1) goes by a delete, by clear_thread_state,
\* by its TTL, by the save of (T1, A2) when the backend has room for one
\* envelope or the thread for one agent, and is saved again.
NextAgain ==
    \/ Tick
    \/ \E a \in {A1, A2}, m \in BOOLEAN :
          /\ StoredVersion(generate_state_key(T1, a)) < MaxVersion
          /\ SaveCall(1, T1, a, AgainData, m, {})
    \/ SaveStep(1)
    \/ \E a \in {A1, A2} : Load(1, T1, a)
    \/ Delete(1, T1, A1)
    \/ ClearThreadState(1, T1)
    \/ ClearDelete(1)

SpecAgain == InitAgain /\ [][NextAgain]_vars

(* ------------------------- saves that fail ------------------------------ *)

\* max_states_per_thread of a store whose threads hold one agent.
OneStatePerThread == 1

\* Thread ids: a valid one and one with a character outside the pattern.
FailThreads == {T1, <<"t", ":">>}

\* State data: a dict, a dict with a str that has no UTF-8 encoding, and a
\* list.
FailData == {[a |-> PyInt(1)], [a |-> PyLoneSurrogate], ListArgument}

\* Tags: none, and a tag whose value has no UTF-8 encoding.
FailTags == {{}, {<<"k", LoneSurrogate>>}}

InitFail == InitStore({0, 1}, {StoreMaxSizeBytes}, {OneStatePerThread})

\* One task saves states, with arguments that make the save fail among them;
\* between its calls time passes and the payload of a state key may be
\* overwritten with malformed bytes through the backend.
NextFail ==
    \/ Tick /\ pc[1] \in {"idle", "done"}
    \/ \E t \in FailThreads, a \in CorruptPairs, d \in FailData,
          m \in BOOLEAN, tg \in FailTags :
          /\ StoredVersion(generate_state_key(t, a[2])) < MaxVersion
          /\ SaveCall(1, t, a[2], d, m, tg)
    \/ SaveList(1)
    \/ SaveMeta(1)
    \/ SaveEvict(1)
    \/ SaveSet(1)
    \/ \E ta \in CorruptPairs, value \in MalformedPayloads :
          BEnter(1, BCall("set", generate_state_key(ta[1], ta[2]), value, 0))
    \/ BBody(1)
    \/ BExit(1)

SpecFail == InitFail /\ [][NextFail]_vars

(* ------------------- the life of one manager --------------------------- *)

InitLife ==
    /\ now = 0
    /\ default_ttl_seconds = 0
    /\ max_size_bytes = StoreMaxSizeBytes
    /\ max_states_per_thread = DefaultMaxStatesPerThread
    /\ storage = EmptyDict
    /\ metadata = EmptyDict
    /\ access_times = <<>>
    /\ total_size_bytes = 0
    /\ lock = 0
    /\ pc = [p \in Procs |-> "idle"]
    /\ frame = [p \in Procs |-> IdleFrame]
    /\ manager \in {NewManager(m, b) : m \in BOOLEAN, b \in BOOLEAN}

\* One task calls initialize(), shutdown(), saves and loads in any order,
\* any number of times, while the event loop runs the periodic tasks.
NextLife ==
    \/ MgrInitialize(1)
    \/ MgrShutdown(1)
    \/ \E d \in MgrData :
          /\ StoredVersion(generate_state_key(T1, A1)) < MaxVersion
          /\ MgrCall(1, "save", T1, A1, d)
    \/ MgrCall(1, "load", T1, A1, EmptyDict)
    \/ MgrStoreCall(1)
    \/ SaveList(1)
    \/ SaveSet(1)
    \/ MgrReturn(1)
    \/ \E task \in {"health_check_task", "backup_task"},
          event \in {"start", "ok", "exception"} : LoopStep(task, event)

SpecLife == InitLife /\ [][NextLife]_vars

(* ------------------- a backend with health checks ----------------------- *)

\* max_size_bytes of a backend that has room for the test value of the health
\* check next to one value of the model, and not next to two of the longest.
HealthMaxSizeBytes == 20

HealthValues == {RawValue("x", n) : n \in 1..MaxValueLen}

InitHealth ==
    /\ now = 0
    /\ default_ttl_seconds \in DefaultTtls
    /\ max_size_bytes = HealthMaxSizeBytes
    /\ max_states_per_thread = DefaultMaxStatesPerThread
    /\ storage = EmptyDict
    /\ metadata = EmptyDict
    /\ access_times = <<>>
    /\ total_size_bytes = 0
    /\ lock = 0
    /\ pc = [p \in Procs |-> "idle"]
    /\ frame = [p \in Procs |-> IdleFrame]
    /\ manager = NewManager(TRUE, FALSE)

\* One task calls every operation of the backend, the health check among
\* them, one call after the other; the three calls of a health check are
\* made within one tick of the clock.
NextHealth ==
    \/ Tick /\ pc[1] \notin {"hc_get", "hc_delete"}
    \/ \E key \in RawKeys, value \in HealthValues, ttl \in {0, 1} :
          BEnter(1, BCall("set", key, value, ttl))
    \/ \E key \in RawKeys, op \in {"get", "delete", "exists"} :
          BEnter(1, BCall(op, key, NoBytes, 0))
    \/ \E op \in {"list_keys", "cleanup"} :
          BEnter(1, BCall(op, <<>>, NoBytes, 0))
    \/ BBody(1)
    \/ BExit(1)
    \/ HealthSet(1)
    \/ HealthGet(1)
    \/ HealthDelete(1)

SpecHealth == InitHealth /\ [][NextHealth]_vars

(* ------------------------------ claims ---------------------------------- *)

RECURSIVE SumLen(_, _)
SumLen(f, keys) ==
    IF keys = {} THEN 0
    ELSE LET k == CHOOSE x \in keys : TRUE
         IN ByteLen(f[k]) + SumLen(f, keys \ {k})

\* The bytes the backend holds.
HeldBytes == SumLen(storage, DOMAIN storage)

\* C2: after any sequence of set, get, delete, exists and list_keys calls, with
\* values of any size, the bytes held and the total_size_bytes counter never
\* exceed max_size_bytes.
C2_SizeNeverExceedsMax ==
    HeldBytes <= max_size_bytes /\ total_size_bytes <= max_size_bytes

InCriticalSection(p) == pc[p] \in {"b_cs", "b_exit"}

\* C9: every change of the backend's tables is made by the task that holds the
\* lock, inside its critical section; no two tasks are inside their critical
\* sections at once; and a task enters only when every earlier entrant has left,
\* so writes take effect in the order the critical sections were entered.
C9_LockSerializesBackend ==
    /\ [](\A p \in Procs : InCriticalSection(p) =>
            /\ lock = p
            /\ \A q \in Procs \ {p} : ~InCriticalSection(q))
    /\ [][tables' # tables =>
            \E p \in Procs : lock = p /\ pc[p] = "b_cs" /\ pc'[p] = "b_exit"]_vars
    /\ [][\A p \in Procs : (pc[p] = "idle" /\ pc'[p] = "b_cs") =>
            \A q \in Procs \ {p} : ~InCriticalSection(q)]_vars

\* A read purged an expired entry inside its critical section while the other
\* key stayed in place.
C9_Witness ==
    \E p \in Procs :
        /\ pc[p] = "b_exit" /\ lock = p
        /\ frame[p].op \in {"get", "exists"}
        /\ frame[p].key \notin DOMAIN storage
        /\ now > 0
        /\ Cardinality(DOMAIN storage) = 1

\* A save_agent_state call of task p has returned a StoredState.
SaveReturned(p) ==
    pc[p] = "done" /\ frame[p].op = "save" /\ frame[p].err = ""

\* C1: the first successful save to a (thread, agent) key returns version 1, and
\* a successful save to a key that holds a live state (merge_with_existing true
\* or false) returns the version that state had plus one.
C1_VersionIncrements ==
    \A p \in Procs :
        SaveReturned(p) =>
            frame[p].ret.metadata.version =
                IF frame[p].held.found THEN frame[p].held.metadata.version + 1 ELSE 1

\* A load_agent_state call of task p on the key of the save that task p has
\* just returned from, at a time the saved entry has not expired.
LoadsAfterSave(p) ==
    LET key == generate_state_key(frame[p].thread, frame[p].agent)
    IN /\ SaveReturned(p)
       /\ pc'[p] = "done" /\ frame'[p].op = "load"
       /\ frame'[p].thread = frame[p].thread /\ frame'[p].agent = frame[p].agent
       /\ key \in DOMAIN metadata
       /\ metadata[key].expires_at = None \/ now <= metadata[key].expires_at

\* C7: a first save followed immediately by a load of the same key returns
\* the data that was saved, version 1, and a checksum equal to the hash
\* recomputed over the serialized data.
C7_SaveLoadRoundTrip ==
    [][\A p \in Procs :
          (LoadsAfterSave(p) /\ ~frame[p].held.found) =>
              /\ frame'[p].err = ""
              /\ frame'[p].ret.found
              /\ frame'[p].ret.data = frame[p].data
              /\ frame'[p].ret.metadata.version = 1
              /\ frame'[p].ret.metadata.checksum =
                     sha256(serialize_state(frame'[p].ret.data))]_vars

\* The top-level union of two dicts in which the keys of the second win.
ShallowUnion(D, incoming) ==
    [k \in DOMAIN D \cup DOMAIN incoming |->
        IF k \in DOMAIN incoming THEN incoming[k] ELSE D[k]]

\* C8: a save on a key holding data D returns, and leaves stored, the shallow
\* union of D and the incoming data when merging, and exactly the incoming data
\* when not merging.
C8_MergeOrReplace ==
    \A p \in Procs :
        (SaveReturned(p) /\ frame[p].held.found) =>
            LET key == generate_state_key(frame[p].thread, frame[p].agent)
                expected == IF frame[p].merge
                            THEN ShallowUnion(frame[p].held.data, frame[p].data)
                            ELSE frame[p].data
            IN /\ frame[p].ret.data = expected
               /\ key \in DOMAIN storage
               /\ storage[key].doc.data = expected

\* The state keys of the backend whose TTL has not elapsed.
LiveStateKeys ==
    {k \in DOMAIN storage :
        /\ Len(k) = 4 /\ k[1] = "copilotkit" /\ k[2] = "state"
        /\ metadata[k].expires_at = None \/ now <= metadata[k].expires_at}

\* The agents holding live state in a thread.
LiveAgents(thread_id) == {k[4] : k \in {x \in LiveStateKeys : x[3] = thread_id}}

BothMergedSameKey ==
    /\ SaveReturned(1) /\ SaveReturned(2)
    /\ frame[1].merge /\ frame[2].merge
    /\ frame[1].thread = frame[2].thread /\ frame[1].agent = frame[2].agent

\* Neither of the two merging saves saw a state under the key when it was
\* called, in a store that never removes an entry (no TTL, no eviction, no
\* delete): the second was called before the first wrote.
BothLoadedBeforeEitherWrote ==
    /\ BothMergedSameKey
    /\ ~frame[1].held.found /\ ~frame[2].held.found
    /\ default_ttl_seconds = 0 /\ max_states_per_thread >= 2

Listed(p) == {frame[p].ret_list[i] : i \in 1..Len(frame[p].ret_list)}

\* Task p has returned from the store read op.
ReadReturned(p, op) == pc[p] = "done" /\ frame[p].op = op

\* Task p has run the body of the backend read op.
BackendRead(p, op) == pc[p] = "b_exit" /\ frame[p].op = op

\* C4: an entry whose TTL had elapsed when a read was made, and that was still
\* physically present, is not observed by the read: backend get returns None,
\* exists returns false and list_keys omits it; load_agent_state and
\* get_state_metadata return None; list_thread_agents and list_agent_threads
\* omit it.
C4_ExpiredNeverObserved ==
    \A p \in Procs :
        /\ BackendRead(p, "get") =>
              (frame[p].key \in frame[p].stale => frame[p].ret_bytes.kind = "none")
        /\ BackendRead(p, "exists") =>
              (frame[p].key \in frame[p].stale => ~frame[p].ret_bool)
        /\ BackendRead(p, "list_keys") => frame[p].ret_keys \cap frame[p].stale = {}
        /\ \A op \in {"load", "get_state_metadata"} :
              (/\ ReadReturned(p, op)
               /\ generate_state_key(frame[p].thread, frame[p].agent) \in frame[p].stale)
                  => frame[p].err = "" /\ ~frame[p].ret.found
        /\ ReadReturned(p, "list_thread_agents") =>
              \A k \in frame[p].stale : k[3] = frame[p].thread => k[4] \notin Listed(p)
        /\ ReadReturned(p, "list_agent_threads") =>
              \A k \in frame[p].stale : k[4] = frame[p].agent => k[3] \notin Listed(p)

\* list_agent_threads has returned with one thread listed and another, whose
\* entry was present with an elapsed TTL, omitted.
C4_Witness ==
    \E p \in Procs :
        /\ ReadReturned(p, "list_agent_threads")
        /\ \E k \in frame[p].stale : k[4] = frame[p].agent
        /\ frame[p].ret_list # <<>>

\* Task p returns from a save of an agent that was not in the thread, which
\* held exactly max_states_per_thread agents when the save was called.
SavesNewAgentAtLimit(p) ==
    /\ pc[p] = "save_set" /\ pc'[p] = "done" /\ frame'[p].err = ""
    /\ frame[p].agent \notin DOMAIN frame[p].before
    /\ Cardinality(DOMAIN frame[p].before) = max_states_per_thread

\* The agents of the thread after the step are those before the save, less one
\* whose updated_at none of them precedes, plus the agent saved.
OldestEvicted(p) ==
    LET before == frame[p].before
        after == {k[4] : k \in {x \in DOMAIN storage' :
                     /\ Len(x) = 4 /\ x[3] = frame[p].thread
                     /\ metadata'[x].expires_at = None \/ now' <= metadata'[x].expires_at}}
    IN \E e \in DOMAIN before :
          /\ \A a \in DOMAIN before : before[e].updated_at <= before[a].updated_at
          /\ after = (DOMAIN before \ {e}) \cup {frame[p].agent}

\* No entry the thread held when the save was called has expired by the time
\* the save writes.
NoneExpiredMeanwhile(p) ==
    \A a \in DOMAIN frame[p].before :
        \/ frame[p].before[a].expires_at = None
        \/ now <= frame[p].before[a].expires_at

ServedByStore(p) ==
    /\ manager.call[p].stage \in {"returned", "raised"}
    /\ manager.call[p].served = "store"

\* C6: only a READY manager serves state operations: no save, load, delete,
\* get_state_metadata or list call made after shutdown() has completed is
\* served by the store.
C6_NoServiceAfterShutdown ==
    \A p \in Procs : ServedByStore(p) => ~manager.call[p].after_shutdown

\* The backend's tables after the step.
TablesNext ==
    [storage |-> storage', metadata |-> metadata',
     access_times |-> access_times', total_size_bytes |-> total_size_bytes']

\* Task p runs the body of a backend set in this step.
RunsSet(p) == pc[p] = "b_cs" /\ pc'[p] = "b_exit" /\ frame[p].op = "set"

\* self._access_times[key]
LastAccess(B, key) ==
    LET i == CHOOSE j \in 1..Len(B.access_times) : B.access_times[j][1] = key
    IN B.access_times[i][2]

\* The entries other than key whose TTL has not elapsed at time t.
Unexpired(B, key, t) == (DOMAIN B.storage \ StaleKeys(B, t)) \ {key}

\* The unexpired entries other than key that the step removes.
EvictedBy(key) == Unexpired(Tables, key, now) \ DOMAIN storage'

\* The set of value under key by p purges, evicts and stops as C11 says.
EvictsLeastRecentlyUsed(key, value) ==
    LET others == Unexpired(Tables, key, now)
        evicted == EvictedBy(key)
        required == ByteLen(value)
    IN /\ StaleKeys(Tables, now) \cap DOMAIN storage' \subseteq {key}
       /\ key \in DOMAIN storage' /\ storage'[key] = value
       /\ SumLen(storage, others) + required <= max_size_bytes => evicted = {}
       /\ \A e \in evicted, k \in others \ evicted :
             LastAccess(Tables, e) <= LastAccess(Tables, k)
       /\ evicted # {} =>
             \E e \in evicted :
                SumLen(storage, others \ (evicted \ {e})) + required > max_size_bytes

\* C11: a backend set purges every TTL-expired entry; it evicts unexpired
\* entries only if the write does not fit without that, in ascending order of
\* last access, never the key being written, and no more of them than the
\* incoming value needs: an entry accessed more recently than another is never
\* evicted before it.
C11_EvictsLeastRecentlyUsed ==
    [][\A p \in Procs :
          RunsSet(p) => EvictsLeastRecentlyUsed(frame[p].key, frame[p].value)]_vars

\* The envelopes the store holds, by key.
Envelopes == {k \in DOMAIN storage : IsContainer(storage[k])}

\* C12: for every envelope held by the store, metadata.checksum is the hash
\* of the serialized data stored in that envelope and metadata.size_bytes the
\* length of those bytes.
C12_ChecksumOfFinalData ==
    \A k \in Envelopes :
        LET envelope == storage[k].doc
            state_bytes == serialize_state(envelope.data)
        IN /\ envelope.metadata.checksum = sha256(state_bytes)
           /\ envelope.metadata.size_bytes = ByteLen(state_bytes)

\* An envelope at version 2 holding two keys: a save merged into another.
C12_Witness ==
    \E k \in Envelopes :
        /\ storage[k].doc.metadata.version = 2
        /\ Cardinality(DOMAIN storage[k].doc.data) = 2

\* Task p returns from a manager call that the store answered.
MgrReturns(p) ==
    /\ manager.call[p].stage = "store"
    /\ manager'.call[p].stage = "returned"

\* The cache as the manager call of p that returns leaves it: the returned
\* metadata under (t, a) after a save or a load that found a state; nothing
\* under (t, a) after a delete or a load that found nothing; nothing of
\* thread t after clear_thread_state(t).
CacheFollowsCall(p) ==
    LET c == manager.call[p]
        cache_key == CacheKey(c.thread, c.agent)
        ret == frame[p].ret
        cache == manager'.metadata_cache
        holds_returned == cache_key \in DOMAIN cache /\ cache[cache_key] = ret.metadata
    IN CASE c.op = "save" -> holds_returned
         [] c.op = "load" -> IF ret.found THEN holds_returned
                             ELSE cache_key \notin DOMAIN cache
         [] c.op = "delete" -> cache_key \notin DOMAIN cache
         [] c.op = "clear_thread_state" -> \A k \in DOMAIN cache : k[1] # c.thread
         [] OTHER -> TRUE

\* C13: when a manager save, load, delete or clear_thread_state returns, the
\* metadata cache holds exactly the metadata returned (save, load that found
\* a state) or no entry for the pair (delete, load that found nothing) or for
\* the thread (clear_thread_state).
C13_CacheFollowsCalls ==
    [][\A p \in Procs : MgrReturns(p) => CacheFollowsCall(p)]_vars

\* A delete of a stored state has returned and its pair is out of the cache.
C13_Witness ==
    \E p \in Procs :
        LET c == manager.call[p]
        IN /\ c.stage = "returned"
           /\ c.op = "delete"
           /\ c.served = "store"
           /\ frame[p].ret_bool
           /\ CacheKey(c.thread, c.agent) \notin DOMAIN manager.metadata_cache

\* The arguments of manager call c are invalid: an identifier the operation
\* takes fails its validation, or the data of a save violates the schema
\* registered for the agent.
InvalidArguments(c) ==
    \/ c.op \in {"save", "load", "delete", "get_state_metadata",
                 "list_thread_agents", "clear_thread_state"}
          /\ ~validate_thread_id(c.thread)
    \/ c.op \in {"save", "load", "delete", "get_state_metadata",
                 "list_agent_threads"}
          /\ ~validate_agent_name(c.agent)
    \/ c.op = "save" /\ ~validate_state(manager, c.agent, c.data)

\* Task p takes a step of a manager state operation.
InManagerCall(p) ==
    /\ manager'.call[p].stage \in {"store", "raised", "returned"}
    /\ manager'.call[p].op \notin {"initialize", "shutdown"}
    /\ manager'.call[p] # manager.call[p] \/ pc'[p] # pc[p]

\* C14: a manager operation given an invalid thread_id or agent_name, or a
\* save given data that violates the agent's schema, raises StorageError
\* without constructing the store and without reading or writing a backend
\* table, whether or not the manager was initialized before.
C14_RejectsBeforeAnyIO ==
    [][\A p \in Procs :
          InManagerCall(p) /\ InvalidArguments(manager'.call[p]) =>
             /\ manager'.store = manager.store
             /\ UNCHANGED tables
             /\ manager'.call[p].stage = "raised" =>
                   manager'.call[p].err = "StorageError"]_vars

\* An identifier that is empty, longer than max_len or holds a character
\* other than a letter, a digit, a hyphen or an underscore.
BadIdentifier(s, max_len) ==
    \/ Len(s) = 0
    \/ Len(s) > max_len
    \/ \E i \in 1..Len(s) : s[i] \notin IdChars

\* Task p calls a store operation with a bad identifier among those the
\* operation takes.
CallsStoreWithBadId(p) ==
    LET f == frame'[p]
    IN /\ pc[p] \in {"idle", "done"}
       /\ frame'[p] # frame[p] \/ pc'[p] # pc[p]
       /\ \/ f.op \in {"save", "load", "delete", "get_state_metadata",
                       "list_thread_agents", "clear_thread_state"}
                /\ BadIdentifier(f.thread, MaxThreadIdLen)
          \/ f.op \in {"save", "load", "delete", "get_state_metadata",
                       "list_agent_threads"}
                /\ BadIdentifier(f.agent, MaxAgentNameLen)

\* C15: a store operation given an empty, over-long or disallowed-character
\* identifier fails with StorageError and leaves the entries, the expiries,
\* the access times and the total size unchanged.
C15_BadIdentifierRejected ==
    [][\A p \in Procs :
          CallsStoreWithBadId(p) =>
             /\ pc'[p] = "done"
             /\ frame'[p].err = "StorageError"
             /\ UNCHANGED tables]_vars

\* Task p has called load_agent_state, and the bytes the backend returned for
\* the key were malformed.
LoadsMalformed(p) ==
    /\ pc[p] \in {"idle", "done"}
    /\ pc'[p] = "done"
    /\ frame'[p] # frame[p]
    /\ frame'[p].op = "load"
    /\ LoadFails(Tables, frame'[p].thread, frame'[p].agent, now)

\* C16: load_agent_state on a key whose payload is malformed fails with an
\* error of kind StateCorruptionError; it returns neither None nor a state.
C16_MalformedRaisesCorruption ==
    [][\A p \in Procs :
          LoadsMalformed(p) => frame'[p].err = "StateCorruptionError"]_vars

\* A save, load or delete of task p on a manager with metrics ends in an
\* error in this step.
MeasuredCallFails(p) ==
    /\ manager.metrics_enabled
    /\ manager'.call[p] # manager.call[p]
    /\ manager'.call[p].stage = "raised"
    /\ manager'.call[p].op \in MeasuredOps

\* The store's call of task p has raised and the manager method resumes.
ResumesAfterStoreError(p) ==
    /\ manager.metrics_enabled
    /\ manager.call[p].stage = "store"
    /\ manager.call[p].op \in MeasuredOps
    /\ pc[p] = "done"
    /\ frame[p].err # ""
    /\ manager'.call[p] # manager.call[p]

\* C17: with metrics enabled, a manager save, load or delete that fails
\* records exactly one failed sample of that operation (its call count and
\* its error count rise by one, no other counter moves) and raises the error
\* the store raised, unchanged; an error of the store always ends the manager
\* call in that error, never in a result.
C17_FailureRecordedAndReraised ==
    [][\A p \in Procs :
          /\ MeasuredCallFails(p) =>
                LET op == manager'.call[p].op
                    before == manager.metrics
                    after == manager'.metrics
                IN /\ after.operations_count =
                         [before.operations_count EXCEPT ![op] = @ + 1]
                   /\ after.error_count = [before.error_count EXCEPT ![op] = @ + 1]
                   /\ manager.call[p].stage = "store" =>
                         manager'.call[p].err = frame[p].err
                   /\ manager'.call[p].err # ""
          /\ ResumesAfterStoreError(p) =>
                /\ manager'.call[p].stage = "raised"
                /\ manager'.call[p].err = frame[p].err]_vars

\* A load that the store failed has been recorded as the second sample of
\* load and its first error, and a save rejected by the schema as an error of
\* save.
C17_Witness ==
    \E p \in Procs :
        LET c == manager.call[p]
        IN /\ c.stage = "raised"
           /\ c.op = "load"
           /\ c.served = "store"
           /\ c.err = "StorageError"
           /\ manager.metrics.operations_count["load"] = 2
           /\ manager.metrics.error_count["load"] = 1
           /\ manager.metrics.error_count["save"] = 1

\* Task p enters a state operation with valid arguments on a manager that
\* has no store.
CallsUninitialized(p) ==
    /\ ~manager.store
    /\ manager'.call[p] # manager.call[p]
    /\ manager'.call[p].op \notin {"initialize", "shutdown"}
    /\ ~InvalidArguments(manager'.call[p])

\* What a state operation returns on a manager whose store is new: a save
\* the first version of the data it was given, every other operation what it
\* returns when no state is stored.
ReturnsAsOnNewStore(c, f) ==
    /\ f.err = ""
    /\ CASE c.op = "save" ->
               f.ret.found /\ f.ret.metadata.version = 1 /\ f.ret.data = c.data
         [] c.op \in {"load", "get_state_metadata"} -> ~f.ret.found
         [] c.op = "delete" -> ~f.ret_bool
         [] c.op \in {"list_thread_agents", "list_agent_threads"} -> f.ret_list = <<>>
         [] c.op = "clear_thread_state" -> f.ret_count = 0

\* C18 (the step): a state operation called with valid arguments on a
\* manager without a store initializes it first, which leaves the manager as
\* initialize() leaves it, READY with a new store, and goes on to the
\* store's operation.
LazilyInitializes(p) ==
    /\ manager'.store
    /\ manager'.health_check_task = Initialized(manager).health_check_task
    /\ manager'.backup_task = Initialized(manager).backup_task
    /\ TablesNext = EmptyTables
    /\ manager'.call[p].stage = "store"

\* C18: a state operation called with valid arguments on a manager that was
\* never initialized runs the initialization first and then completes as it
\* does on a READY manager with a new store; it does not fail.
C18_LazyInitialization ==
    [][\A p \in Procs :
          /\ CallsUninitialized(p) => LazilyInitializes(p)
          /\ manager.call[p].stage = "store" /\ manager.call[p].constructed
                /\ manager'.call[p] # manager.call[p] =>
                /\ manager'.call[p].stage = "returned"
                /\ manager'.store
                /\ ReturnsAsOnNewStore(manager.call[p], frame[p])]_vars

\* A save on a manager that had no store has initialized it and returned.
C18_Witness ==
    \E p \in Procs :
        /\ manager.call[p].stage = "returned"
        /\ manager.call[p].constructed
        /\ manager.call[p].op = "save"
        /\ manager.store
        /\ storage # EmptyDict

\* C19: when initialize() has returned, the store exists, the health-check
\* task is running, and the backup task is running exactly if backup is
\* enabled, whatever the configuration.
C19_InitializeStartsTasks ==
    \A p \in Procs :
        manager.call[p].stage = "returned" /\ manager.call[p].op = "initialize" =>
            /\ manager.store
            /\ manager.health_check_task = "running"
            /\ manager.backup_task = "running" <=> manager.backup_enabled

\* Task p runs shutdown() on a manager that has a store.
ShutsDownReady(p) ==
    /\ manager.store
    /\ manager'.call[p] # manager.call[p]
    /\ manager'.call[p].op = "shutdown"

\* C20: shutdown() on a READY manager leaves neither the health-check task
\* nor the backup task running, the metadata cache and its expiry map empty
\* and the backend without any entry, and returns without an error.
C20_ShutdownReleases ==
    [][\A p \in Procs :
          ShutsDownReady(p) =>
             /\ manager'.health_check_task # "running"
             /\ manager'.backup_task # "running"
             /\ manager.health_check_task = "running" =>
                   manager'.health_check_task = "cancelled"
             /\ manager.backup_task = "running" => manager'.backup_task = "cancelled"
             /\ manager'.metadata_cache = EmptyDict
             /\ manager'.cache_expiry = EmptyDict
             /\ TablesNext = EmptyTables
             /\ manager'.call[p].stage = "returned"
             /\ manager'.call[p].err = ""]_vars

\* shutdown() has returned right after a save: both tasks were running and
\* are cancelled, and the state saved is in neither the backend nor the cache.
C20_Witness ==
    \E p \in Procs :
        /\ manager.call[p].stage = "returned"
        /\ manager.call[p].op = "shutdown"
        /\ manager.health_check_task = "cancelled"
        /\ manager.backup_task = "cancelled"
        /\ pc[p] = "done"
        /\ frame[p].op = "save"
        /\ frame[p].err = ""
        /\ storage = EmptyDict
        /\ manager.metadata_cache = EmptyDict

(* ---- C21 ---- *)

\* The call of item raises: save_agent_state and load_agent_state reject an
\* invalid identifier.
ItemRaises(item) ==
    ~validate_thread_id(item[1]) \/ ~validate_agent_name(item[2])

\* The indices of the items of a bulk call whose call raises.
RaisingItems(b) == {i \in DOMAIN b.items : ItemRaises(b.items[i])}

\* ret is what the bulk method has to return for item, with the store as it is
\* now: the saved state holding the item's data, or what a load returns.
IsResultOf(op, item, ret) ==
    IF op = "bulk_save"
    THEN /\ ret.found
         /\ ret.state_key = generate_state_key(item[1], item[2])
         /\ \A k \in DOMAIN item[3] :
               k \in DOMAIN ret.data /\ ret.data[k] = JsonRoundTrip(item[3][k])
    ELSE ret = LoadResult(Tables, item[1], item[2], now)

\* The store holds what the save of item has written.
EffectRemains(item) ==
    LET st == LoadResult(Tables, item[1], item[2], now)
    IN /\ st.found
       /\ \A k \in DOMAIN item[3] :
             k \in DOMAIN st.data /\ st.data[k] = JsonRoundTrip(item[3][k])

\* The first item that raises.
FirstRaising(b) ==
    CHOOSE k \in RaisingItems(b) : \A i \in RaisingItems(b) : k <= i

\* Claim C21: bulk_save_states and bulk_load_states call their items one at a
\* time in input order; when no item raises they return one result per item in
\* that order; when item k is the first to raise, the error leaves the bulk
\* method, no item after k is attempted and what the items before k saved is
\* still in the store.
C21_BulkInOrderAbortsOnError ==
    \A p \in Procs :
        LET b == manager.bulk[p]
        IN b.stage # "none" =>
              /\ b.attempted = SubSeq(b.items, 1, Len(b.attempted))
              /\ Len(b.results) <= Len(b.attempted)
              /\ b.stage = "returned" =>
                    /\ RaisingItems(b) = {}
                    /\ Len(b.results) = Len(b.items)
                    /\ \A i \in DOMAIN b.items :
                          IsResultOf(b.op, b.items[i], b.results[i])
              /\ b.stage = "raised" =>
                    /\ RaisingItems(b) # {}
                    /\ b.err = "StorageError"
                    /\ Len(b.attempted) = FirstRaising(b)
                    /\ Len(b.results) = FirstRaising(b) - 1
                    /\ b.op = "bulk_save" =>
                          \A i \in 1..(FirstRaising(b) - 1) :
                              EffectRemains(b.items[i])
              /\ b.stage = "running" => Len(b.attempted) < Len(b.items)

\* A bulk save of three items has raised at its second item: the first item
\* is in the store, the third was never attempted.
C21_Witness ==
    \E p \in Procs :
        LET b == manager.bulk[p]
        IN /\ b.stage = "raised"
           /\ b.op = "bulk_save"
           /\ Len(b.items) = 3
           /\ Len(b.attempted) = 2
           /\ ~ItemRaises(b.items[3])
           /\ generate_state_key(b.items[1][1], b.items[1][2]) \in DOMAIN storage

(* ---- C22 ---- *)

\* Task p takes a step of clear_thread_state.
ClearSteps(p) ==
    /\ frame'[p] # frame[p]
    /\ frame'[p].op = "clear_thread_state"

\* The step ends p's clear_thread_state with a return.
ClearReturns(p) ==
    /\ ClearSteps(p)
    /\ pc'[p] = "done"
    /\ frame'[p].err = ""

\* The states of the threads other than thread_id are after the step what
\* they were before it.
OtherThreadsKept(thread_id) ==
    \A ta \in ClearPairs :
        ta[1] # thread_id =>
            LoadResult(TablesNext, ta[1], ta[2], now)
                = LoadResult(Tables, ta[1], ta[2], now)

\* Claim C22: clear_thread_state(t) returns the number of agents that held
\* state in thread t just before the call, load_agent_state(t, a) then
\* returns None for each of them, and no step of the call changes the state
\* of another thread.
C22_ClearCountsAndRemoves ==
    [][\A p \in Procs :
          ClearSteps(p) =>
             /\ OtherThreadsKept(frame'[p].thread)
             /\ ClearReturns(p) =>
                   /\ frame'[p].ret_count = Cardinality(frame'[p].holders)
                   /\ \A a \in frame'[p].holders :
                         ~LoadResult(TablesNext, frame'[p].thread, a, now).found]_vars

\* clear_thread_state has returned 2 for a thread of two agents while another
\* thread holds a state.
C22_Witness ==
    \E p \in Procs :
        /\ pc[p] = "done"
        /\ frame[p].op = "clear_thread_state"
        /\ frame[p].err = ""
        /\ frame[p].ret_count = 2
        /\ frame[p].thread = T1
        /\ LoadResult(Tables, T2, A1, now).found

(* ---- C23 ---- *)

\* The step ends a call of store method op by task p with a return.
ListReturns(p, op) ==
    /\ frame'[p] # frame[p]
    /\ frame'[p].op = op
    /\ pc'[p] = "done"
    /\ frame'[p].err = ""

\* names is in ascending order, each name once.
StrictlyAscending(names) ==
    \A i, j \in DOMAIN names : i < j => StrLess(names[i], names[j])

\* The agents of the model for which load_agent_state(thread_id, a) returns
\* a state, with the tables and the clock as they are.
LoadableAgents(thread_id) ==
    {a \in {ta[2] : ta \in ListPairs} : LoadResult(Tables, thread_id, a, now).found}

\* The threads of the model for which load_agent_state(t, agent_name) returns
\* a state.
LoadableThreads(agent_name) ==
    {t \in {ta[1] : ta \in ListPairs} : LoadResult(Tables, t, agent_name, now).found}

\* Claim C23: list_thread_agents(t) returns, in ascending order and without
\* duplicates, exactly the agents whose state in t load_agent_state returns at
\* that moment, and list_agent_threads(a) exactly the threads in which
\* load_agent_state returns a state of a.
C23_ListsExactlyLoadable ==
    [][\A p \in Procs :
          /\ ListReturns(p, "list_thread_agents") =>
                /\ StrictlyAscending(frame'[p].ret_list)
                /\ SeqToSet(frame'[p].ret_list) = LoadableAgents(frame'[p].thread)
          /\ ListReturns(p, "list_agent_threads") =>
                /\ StrictlyAscending(frame'[p].ret_list)
                /\ SeqToSet(frame'[p].ret_list) = LoadableThreads(frame'[p].agent)]_vars

\* list_thread_agents has returned two agents while the backend still held
\* an entry that was expired or belonged to another thread when it was called.
C23_Witness ==
    \E p \in Procs :
        /\ pc[p] = "done"
        /\ frame[p].op = "list_thread_agents"
        /\ frame[p].err = ""
        /\ Len(frame[p].ret_list) = 2
        /\ \/ frame[p].stale # {}
           \/ \E k \in DOMAIN storage : k[3] # frame[p].thread

(* ---- C24 ---- *)

\* The step runs the body of task p's backend delete.
DeleteRuns(p) ==
    /\ pc[p] = "b_cs"
    /\ pc'[p] = "b_exit"
    /\ frame[p].op = "delete"

\* get(key) returns None, exists(key) returns false and delete(key) returns
\* false on the tables B at time t.
AbsentFrom(B, key, t) ==
    /\ BackendGetResult(B, key, t) = NoBytes
    /\ ~BackendExistsResult(B, key, t)
    /\ ~BackendDeleteResult(B, key)

\* Claim C24: the backend's delete(key) returns true if and only if the key
\* existed just before it ran, an entry whose TTL has elapsed counting as not
\* existing; after it get(key) returns None, exists(key) returns false and
\* another delete(key) returns false.
C24_DeleteTrueIffExisted ==
    [][\A p \in Procs :
          DeleteRuns(p) =>
             /\ frame'[p].ret_bool = BackendExistsResult(Tables, frame[p].key, now)
             /\ AbsentFrom(TablesNext, frame[p].key, now)]_vars

(* ---- C25 ---- *)

\* The step runs the body of task p's backend call of operation op.
BodyRuns(p, op) ==
    /\ pc[p] = "b_cs"
    /\ pc'[p] = "b_exit"
    /\ frame[p].op = op

\* The expiry the claim gives an entry set at time t: t + ttl for a ttl of at
\* least one second, t + default when the ttl is omitted (0 here) and the
\* backend has a default, never otherwise.
ClaimedExpiry(ttl, default_ttl, t) ==
    IF ttl >= 1 THEN t + ttl
    ELSE IF default_ttl >= 1 THEN t + default_ttl
    ELSE None

\* The entry of key, held in the tables, is present at time t: its expiry is
\* never, or t is not past it.
PresentAt(key, t) ==
    \/ metadata[key].expires_at = None
    \/ t <= metadata[key].expires_at

\* Claim C25: a set gives the entry the expiry t0 + d of the explicit ttl d,
\* or of the backend's default when the ttl is omitted, or none when there is
\* neither, replacing the key's previous expiry; until the key is set again
\* the expiry stays, and a read finds the entry at every time up to the expiry
\* and finds nothing after it.
C25_TtlDecidesPresence ==
    [][\A p \in Procs :
          /\ BodyRuns(p, "set") =>
                metadata'[frame[p].key].expires_at
                    = ClaimedExpiry(frame[p].ttl, default_ttl_seconds, now)
          /\ \A key \in DOMAIN storage \cap DOMAIN storage' :
                ~(\E q \in Procs : BodyRuns(q, "set") /\ frame[q].key = key) =>
                    metadata'[key].expires_at = metadata[key].expires_at
          /\ BodyRuns(p, "exists") /\ frame[p].key \in DOMAIN storage =>
                frame'[p].ret_bool = PresentAt(frame[p].key, now)
          /\ BodyRuns(p, "get") /\ frame[p].key \in DOMAIN storage =>
                (frame'[p].ret_bytes # NoBytes) = PresentAt(frame[p].key, now)]_vars

\* exists has answered false for a key whose entry, set with a TTL, was still
\* held when the TTL had run out.
C25_Witness ==
    \E p \in Procs :
        /\ pc[p] = "b_exit"
        /\ frame[p].op = "exists"
        /\ ~frame[p].ret_bool
        /\ frame[p].key \in frame[p].stale

(* ---- C26 ---- *)

\* The step starts a save_agent_state of task p that passes validation and
\* builds its metadata.
SaveBuildsMetadata(p) ==
    /\ pc[p] \in {"idle", "done"}
    /\ pc'[p] = "save_list"
    /\ frame'[p].op = "save"

\* The step ends a save_agent_state of task p with a return.
SaveEnds(p) ==
    /\ pc[p] = "save_set"
    /\ pc'[p] = "done"
    /\ frame'[p].err = ""

\* Claim C26: a successful save to a key that holds a state, merging or not,
\* returns the created_at of that state and the time of the save as
\* updated_at; a first save returns the time of the save as both; and every
\* stored envelope has created_at <= updated_at.
C26_CreatedAtPreserved ==
    [][/\ \A p \in Procs :
             /\ SaveBuildsMetadata(p) => frame'[p].meta.updated_at = now
             /\ SaveEnds(p) =>
                   LET meta == frame'[p].ret.metadata
                       held == frame'[p].held
                   IN /\ meta.updated_at = frame[p].meta.updated_at
                      /\ meta.created_at = IF held.found
                                           THEN held.metadata.created_at
                                           ELSE meta.updated_at
       /\ \A k \in DOMAIN storage' :
             IsContainer(storage'[k]) =>
                storage'[k].doc.metadata.created_at
                    <= storage'[k].doc.metadata.updated_at]_vars

(* ---- C27 ---- *)

\* Claim C27: a successful save stores and returns exactly the tags it was
\* passed, none when it was passed none; the tags of the state the key held
\* are neither kept nor merged in, also when the data is merged.
C27_TagsReplaced ==
    [][\A p \in Procs :
          SaveEnds(p) =>
             LET key == generate_state_key(frame[p].thread, frame[p].agent)
             IN /\ frame'[p].ret.metadata.tags = frame[p].tags
                /\ storage'[key].doc.metadata.tags = frame[p].tags]_vars

\* A save without tags, merged into a state that had a tag, has returned: the
\* data of the two saves is merged and the stored entry has no tag.
C27_Witness ==
    \E p \in Procs :
        /\ SaveReturned(p)
        /\ frame[p].merge
        /\ frame[p].tags = {}
        /\ frame[p].held.found
        /\ frame[p].held.metadata.tags # {}
        /\ DOMAIN frame[p].ret.data # DOMAIN frame[p].data
        /\ storage[generate_state_key(frame[p].thread, frame[p].agent)].doc.metadata.tags = {}

(* ---- C28 ---- *)

\* The type tag of a value's class.
TypeTagOf(value) ==
    CASE value.t = "str" -> "string"
      [] value.t = "int" -> "integer"
      [] value.t = "float" -> "float"
      [] value.t = "bool" -> "boolean"
      [] value.t = "list" -> "array"
      [] value.t = "dict" -> "object"

\* The value's type matches the type tag of the schema; an integer is taken
\* to match "float" as well.
TypeMatches(value, expected_type) ==
    \/ TypeTagOf(value) = expected_type
    \/ TypeTagOf(value) = "integer" /\ expected_type = "float"

\* Claim C28: validate_state returns true for any data when the agent has no
\* schema; for an agent with a schema it fails with StorageError if and only
\* if a required field is missing from the data or a field of both the data
\* and the schema holds a value whose type does not match the schema's tag;
\* fields the schema does not name are allowed.
C28_ValidateFailsIffMismatch ==
    \A p \in Procs :
        pc[p] = "done" /\ frame[p].op = "validate_state" =>
            LET f == frame[p]
                missing == {field \in f.required : field \notin DOMAIN f.data}
                mismatched == {field \in DOMAIN f.schema \cap DOMAIN f.data :
                                  ~TypeMatches(f.data[field], f.schema[field])}
            IN (f.err = "StorageError")
                  <=> (f.registered /\ (missing # {} \/ mismatched # {}))

(* ---- C29 ---- *)

\* The argument is a string of 1 to max_len characters, each a letter, a
\* digit, a hyphen or an underscore.
WellFormedIdentifier(argument, max_len) ==
    /\ argument.kind = "str"
    /\ Len(argument.content) >= 1
    /\ Len(argument.content) <= max_len
    /\ \A i \in 1..Len(argument.content) : argument.content[i] \in IdChars

\* Claim C29: validate_thread_id accepts exactly the strings of 1 to 255
\* letters, digits, hyphens and underscores, validate_agent_name exactly those
\* of 1 to 100; None, the empty string, a longer string and a string holding
\* any other character (a space, a colon, a line break) are rejected.
C29_AcceptsExactlyWellFormed ==
    \A p \in Procs :
        /\ pc[p] = "done" /\ frame[p].op = "validate_thread_id" =>
              frame[p].ret_bool = WellFormedIdentifier(frame[p].argument, MaxThreadIdLen)
        /\ pc[p] = "done" /\ frame[p].op = "validate_agent_name" =>
              frame[p].ret_bool = WellFormedIdentifier(frame[p].argument, MaxAgentNameLen)

(* ---- C30 ---- *)

\* The periodic tasks of the manager.
PeriodicTasks == {"health_check_task", "backup_task"}

\* Claim C30: an exception raised in an iteration of the health-check loop or
\* of the backup loop is caught in the loop, which goes on to its next
\* iteration; a loop ends only when its task is cancelled, and then it ends
\* without an error.
C30_LoopsSurviveExceptions ==
    [][\A task \in PeriodicTasks :
          LET l == manager.loops[task]
              after == manager'.loops[task]
          IN /\ after.caught > l.caught =>
                   /\ after.at = "sleeping"
                   /\ after.ended_by = ""
                   /\ l.iterations < MaxIterations =>
                         after.iterations
                            < LoopAfter(after, "ok").iterations
             /\ after.at = "ended" /\ l.at # "ended" =>
                   /\ manager[task] = "running"
                   /\ manager'[task] = "cancelled"
             /\ after.at = "ended" => after.ended_by \in {"break", "cancelled"}]_vars

\* A loop caught an exception, completed a later iteration and was then ended
\* by the cancellation of shutdown.
C30_Witness ==
    \E task \in PeriodicTasks :
        /\ manager.loops[task].caught >= 1
        /\ manager.loops[task].last = "ok"
        /\ manager.loops[task].at = "ended"
        /\ manager.loops[task].ended_by = "break"
        /\ manager[task] = "cancelled"

(* ---- C31 ---- *)

\* What the call a task has finished says about the state of the task's key:
\* nothing before the first call and after a delete, the state returned after
\* a save (as json reads it back) or a load.
OwnStateAfter(f) ==
    CASE f.op = "none" -> NoState
      [] f.op = "delete" -> NoState
      [] f.op = "save" ->
            IF f.err = "" THEN [f.ret EXCEPT !.data = JsonDoc(@)] ELSE NoState
      [] OTHER -> f.ret

\* Task p takes a step of a call of store method op.
OwnStep(p, op) ==
    /\ frame'[p] # frame[p]
    /\ frame'[p].op = op

\* The step begins a call of task p.
OwnCallBegins(p) == pc[p] \in {"idle", "done"} /\ frame'[p] # frame[p]

\* The states of the other tasks' keys are after the step what they were.
OthersUntouched(p) ==
    \A q \in Procs \ {p} :
        LET key == generate_state_key(OwnPair(q)[1], OwnPair(q)[2])
        IN /\ (key \in DOMAIN storage') = (key \in DOMAIN storage)
           /\ key \in DOMAIN storage =>
                 /\ storage'[key] = storage[key]
                 /\ metadata'[key].expires_at = metadata[key].expires_at

\* Claim C31: tasks that run concurrently and each save, update with merge,
\* load and delete only their own (thread, agent) key, in a thread they
\* share, do not interfere while no limit is reached: no step of a task
\* changes the state of another task's key; every save returns, with the
\* incoming data merged into (or put in place of) what the task's previous
\* call left, and stores what it returns; every load returns what the task's
\* previous call left, the data of its latest save; and after a delete the
\* task's key is absent.
C31_OwnKeysDoNotInterfere ==
    [][\A p \in Procs :
          LET key == generate_state_key(OwnPair(p)[1], OwnPair(p)[2])
              left == OwnStateAfter(frame[p])
          IN /\ frame'[p] # frame[p] => OthersUntouched(p)
             /\ (OwnStep(p, "save") /\ OwnCallBegins(p)) =>
                   /\ frame'[p].held = left
                   /\ pc'[p] # "done"
             /\ (OwnStep(p, "save") /\ pc'[p] = "done") =>
                   LET f == frame'[p]
                   IN /\ f.err = ""
                      /\ f.ret.found
                      /\ f.ret.data = IF f.merge /\ f.held.found
                                      THEN ShallowUnion(f.held.data, f.data)
                                      ELSE f.data
                      /\ LoadResult(TablesNext, f.thread, f.agent, now)
                            = OwnStateAfter(f)
             /\ OwnStep(p, "load") =>
                   /\ frame'[p].err = ""
                   /\ frame'[p].ret = left
             /\ OwnStep(p, "delete") =>
                   /\ frame'[p].err = ""
                   /\ frame'[p].ret_bool = left.found
                   /\ key \notin DOMAIN storage'
                   /\ ~LoadResult(TablesNext, OwnPair(p)[1], OwnPair(p)[2], now).found]_vars

\* Task 1 has loaded the merged data of its two saves while task 2, whose
\* saves overlapped them in the same thread, has deleted its own state.
C31_Witness ==
    /\ pc[1] = "done" /\ frame[1].op = "load" /\ frame[1].err = ""
    /\ frame[1].ret.found
    /\ DOMAIN frame[1].ret.data = {"id", "step", "n"}
    /\ frame[1].ret.metadata.version = 2
    /\ pc[2] = "done" /\ frame[2].op = "delete" /\ frame[2].ret_bool
    /\ generate_state_key(T1, A2) \notin DOMAIN storage

(* ---- C32 ---- *)

\* A save, load or delete of task p on a manager with metrics completes in
\* this step: the store has answered and the method returns or raises, or
\* the method raises before it calls the store (a step of the manager in
\* which no other task moves and that leaves p's call raised).
MeasuredCallEnds(p) ==
    /\ manager.metrics_enabled
    /\ manager'.call[p].stage \in {"returned", "raised"}
    /\ manager'.call[p].op \in MeasuredOps
    /\ \/ manager.call[p].stage = "store"
       \/ /\ manager.call[p].stage # "store"
          /\ manager'.call[p].stage = "raised"
          /\ manager' # manager
          /\ \A q \in Procs \ {p} : manager'.call[q] = manager.call[q]

\* 1 for true, 0 for false.
CountOf(b) == IF b THEN 1 ELSE 0

\* Claim C32: with metrics enabled, operations_count[op] of save, load and
\* delete is the number of calls of op that completed, error_count[op] the
\* number that raised, and total_states_stored, total_states_loaded and
\* total_states_deleted the numbers of saves that succeeded, loads that found
\* a state and deletes that returned true: every completing call adds one to
\* the count of its operation, one to its error count when it raises and one
\* to its total when it succeeds that way, and nothing else moves a counter.
C32_MetricsCountCalls ==
    [][/\ \A p \in Procs :
             MeasuredCallEnds(p) =>
                LET op == manager'.call[p].op
                    raised == manager'.call[p].stage = "raised"
                    before == manager.metrics
                    after == manager'.metrics
                IN /\ after.operations_count =
                         [before.operations_count EXCEPT ![op] = @ + 1]
                   /\ after.error_count =
                         [before.error_count EXCEPT ![op] = @ + CountOf(raised)]
                   /\ after.total_states_stored = before.total_states_stored
                         + CountOf(op = "save" /\ ~raised)
                   /\ after.total_states_loaded = before.total_states_loaded
                         + CountOf(op = "load" /\ ~raised /\ frame[p].ret.found)
                   /\ after.total_states_deleted = before.total_states_deleted
                         + CountOf(op = "delete" /\ ~raised /\ frame[p].ret_bool)
       /\ (\A p \in Procs : ~MeasuredCallEnds(p)) =>
             manager'.metrics = manager.metrics]_vars

(* ---- C33 ---- *)

\* A get_state_metadata of task p on the manager returns in this step, from
\* the cache or with the answer of the store.
GetMetadataReturns(p) ==
    /\ manager'.call[p] # manager.call[p]
    /\ manager'.call[p].op = "get_state_metadata"
    /\ manager'.call[p].stage = "returned"

\* What the returning get_state_metadata of task p reports: the cached
\* metadata, or what the store returned.
MetadataReported(p) ==
    LET c == manager'.call[p]
    IN IF c.served = "cache"
       THEN [found |-> TRUE,
             metadata |-> manager.metadata_cache[CacheKey(c.thread, c.agent)]]
       ELSE [found |-> frame[p].ret.found,
             metadata |-> IF frame[p].ret.found THEN frame[p].ret.metadata
                          ELSE StateMetadata(0, 0, 0, {})]

\* Claim C33: the manager's get_state_metadata(t, a) returns None whenever
\* the store holds no live state of (t, a) at that moment, so whenever a
\* load_agent_state at that moment would return None, and otherwise the
\* metadata of the envelope stored.
C33_MetadataOnlyOfPresentState ==
    [][\A p \in Procs :
          GetMetadataReturns(p) =>
             LET c == manager'.call[p]
                 stored == LoadResult(Tables, c.thread, c.agent, now)
                 reported == MetadataReported(p)
             IN /\ reported.found = stored.found
                /\ stored.found => reported.metadata = stored.metadata]_vars

(* ---- C34 ---- *)

\* The backend holds under the key of (thread_id, agent_name) an entry whose
\* TTL has not elapsed at time t.
LiveAt(B, thread_id, agent_name, t) ==
    LET key == generate_state_key(thread_id, agent_name)
    IN /\ key \in DOMAIN B.storage
       /\ B.metadata[key].expires_at = None \/ t <= B.metadata[key].expires_at

\* Claim C34: a save to a key whose state has gone (deleted, cleared with its
\* thread, expired, or evicted for capacity or for the limit of its thread)
\* creates a new state, with or without merge_with_existing: it builds
\* version 1, created at the time of the save, over the incoming keys alone,
\* and that is what it stores and returns.
C34_SaveAfterDestroyIsNew ==
    [][\A p \in Procs :
          /\ (SaveBuildsMetadata(p)
                /\ ~LiveAt(Tables, frame'[p].thread, frame'[p].agent, now)) =>
                /\ frame'[p].meta.version = 1
                /\ frame'[p].meta.created_at = now
                /\ frame'[p].final = frame'[p].data
          /\ SaveEnds(p) =>
                LET key == generate_state_key(frame[p].thread, frame[p].agent)
                IN /\ frame'[p].ret.metadata = frame[p].meta
                   /\ frame'[p].ret.data = frame[p].final
                   /\ storage'[key].doc.metadata = frame[p].meta
                   /\ storage'[key].doc.data = JsonDoc(frame[p].final)]_vars

\* The state of (T1, A1), which the store held at time 0 with the fields a
\* and b, is gone and has been saved again with merge_with_existing: the
\* stored state has version 1, a later created_at and one field.
C34_Witness ==
    /\ SaveReturned(1)
    /\ frame[1].thread = T1 /\ frame[1].agent = A1
    /\ frame[1].merge
    /\ now > 0
    /\ LET doc == storage[generate_state_key(T1, A1)].doc
       IN /\ doc.metadata.version = 1
          /\ doc.metadata.created_at > 0
          /\ Cardinality(DOMAIN doc.data) = 1

(* ---- C35 ---- *)

\* Claim C35: whatever calls of set, get, delete, exists, list_keys,
\* health_check and cleanup the backend has served, _storage, _metadata and
\* _access_times hold the same keys (each once), the size in the metadata of
\* a key is the length of its value, and _total_size_bytes is the sum of the
\* lengths of the values held.
C35_TablesAgree ==
    /\ DOMAIN metadata = DOMAIN storage
    /\ DictKeys(access_times) = DOMAIN storage
    /\ Len(access_times) = Cardinality(DOMAIN storage)
    /\ \A k \in DOMAIN storage : metadata[k].size = ByteLen(storage[k])
    /\ total_size_bytes = HeldBytes

\* The backend holds two values between calls, after a health check has run
\* and after entries have been removed for their TTL or for space.
C35_Witness ==
    /\ pc[1] = "done"
    /\ frame[1].op = "health_check"
    /\ Cardinality(DOMAIN storage) = 2
    /\ total_size_bytes > 2
    /\ now > 0

(* ---- C36 ---- *)

\* The health check of task p returns.
HealthReturns(p) ==
    /\ pc[p] = "hc_delete"
    /\ pc'[p] = "done"

\* Claim C36: a health_check() returns true, leaves its test key absent, and
\* leaves every other entry that was unexpired when it began in place, with
\* its value and its expiry, whatever the fill level of the backend.
C36_HealthCheckKeepsEntries ==
    [][\A p \in Procs : HealthReturns(p) =>
          /\ frame'[p].ret_bool
          /\ HealthKey \notin DOMAIN storage'
          /\ \A k \in DOMAIN frame[p].others :
                /\ k \in DOMAIN storage'
                /\ storage'[k] = frame[p].others[k].value
                /\ metadata'[k].expires_at = frame[p].others[k].expires_at]_vars

\* What holds of every health check: it returns true and its test key is
\* absent afterwards.
HealthCheckRoundTrip ==
    [][\A p \in Procs : HealthReturns(p) =>
          /\ frame'[p].ret_bool
          /\ HealthKey \notin DOMAIN storage']_vars

\* What holds of a health check that began with room for its test value.
HealthCheckWithRoom ==
    [][\A p \in Procs :
          (HealthReturns(p) /\
             SumLen([k \in DOMAIN frame[p].others |-> frame[p].others[k].value],
                    DOMAIN frame[p].others)
                + ByteLen(HealthValue) <= max_size_bytes) =>
             \A k \in DOMAIN frame[p].others :
                /\ k \in DOMAIN storage'
                /\ storage'[k] = frame[p].others[k].value
                /\ metadata'[k].expires_at = frame[p].others[k].expires_at]_vars

(* ---- C37 ---- *)

\* An initialize() of task p returns.
InitializeReturns(p) ==
    /\ manager'.call[p].stage = "returned"
    /\ manager'.call[p].op = "initialize"
    /\ manager' = [Initialized(manager) EXCEPT !.call[p] = manager'.call[p]]
    /\ UNCHANGED <<now, pc, frame>>

\* A shutdown() of task p returns.
ShutdownReturns(p) ==
    /\ manager'.call[p].stage = "returned"
    /\ manager'.call[p].op = "shutdown"
    /\ manager'.shutdown_completed
    /\ manager'.loops = [task \in DOMAIN manager.loops |->
                            LoopAfter(manager.loops[task], "cancel")]
    /\ UNCHANGED <<now, pc, frame>>

\* A periodic task that was created and has not ended.
Alive(l) == l.at \in {"created", "sleeping"}

\* An initialize() that finds a store keeps the states it holds.
StatesSurviveInitialize ==
    [][\A p \in Procs : (InitializeReturns(p) /\ manager.store) =>
          TablesNext = Tables]_vars

\* An initialize() never creates a task next to one of its kind that is
\* alive: the task it finds alive is the task the manager has afterwards.
\* A task that initialize() replaces while it is alive is referenced by
\* nothing afterwards, so no later shutdown() cancels it.
NoSecondTask ==
    [][\A p \in Procs : InitializeReturns(p) =>
          \A task \in DOMAIN manager.loops :
             Alive(manager.loops[task]) =>
                manager'.loops[task] = manager.loops[task]]_vars

\* After shutdown() the tasks the manager refers to have ended.
TasksEndAtShutdown ==
    [][\A p \in Procs : ShutdownReturns(p) =>
          \A task \in DOMAIN manager.loops :
             ~Alive(manager'.loops[task])]_vars

\* A call that initializes lazily finds no task alive and no state stored.
LazyInitializeIsFirst ==
    [][\A p \in Procs :
          (manager'.call[p].stage = "store" /\ manager'.call[p].constructed
             /\ ~manager.store /\ manager'.store) =>
             /\ \A task \in DOMAIN manager.loops : ~Alive(manager.loops[task])
             /\ DOMAIN storage = {}]_vars

\* Claim C37: whatever sequence of initialize(), lazily initializing
\* operations and shutdown() is made on one manager, a repeated initialize()
\* keeps the states of the store, no second health-check or backup task is
\* created next to one that is alive, and after shutdown() no task of the
\* manager is running.
C37_OneStoreOneTaskOfEachKind ==
    [][\A p \in Procs :
          /\ InitializeReturns(p) =>
                /\ manager.store => TablesNext = Tables
                /\ \A task \in DOMAIN manager.loops :
                      Alive(manager.loops[task]) =>
                         manager'.loops[task] = manager.loops[task]
          /\ ShutdownReturns(p) =>
                \A task \in DOMAIN manager.loops :
                   ~Alive(manager'.loops[task])]_vars

(* ---- C38 ---- *)

\* The save of task p fails: it raises StorageError, at a later step of the
\* call or at the step that began it.
SaveFails(p) ==
    /\ pc'[p] = "done"
    /\ frame'[p].op = "save"
    /\ frame'[p].err = "StorageError"
    /\ \/ pc[p] # "done"
       \/ pc' = pc /\ now' = now

\* Every agent that held a live state in the thread when the call began still
\* holds an envelope with the same updated_at, under the same expiry.
ThreadKept(f, B) ==
    \A a \in DOMAIN f.before :
       LET k == generate_state_key(f.thread, a)
       IN /\ k \in DOMAIN B.storage
          /\ IsContainer(B.storage[k])
          /\ B.storage[k].doc.metadata.updated_at = f.before[a].updated_at
          /\ B.metadata[k].expires_at = f.before[a].expires_at

\* The key of the call holds the state it held when the call began: data,
\* version and the rest of its metadata.
TargetKept(f, B, t) ==
    f.held.found =>
       /\ validate_thread_id(f.thread) /\ validate_agent_name(f.agent)
       /\ LoadResult(B, f.thread, f.agent, t) = f.held

\* Claim C38: a save_agent_state that fails leaves every stored envelope as
\* it was when the call began: the key of the call keeps its data, version
\* and expiry, and no agent of the thread has been evicted by the per-thread
\* limit.
C38_FailedSaveChangesNothing ==
    [][\A p \in Procs : SaveFails(p) =>
          /\ ThreadKept(frame'[p], TablesNext)
          /\ TargetKept(frame'[p], TablesNext, now')]_vars

\* What holds of every failed save: the key of the call keeps its state.
FailedSaveKeepsTarget ==
    [][\A p \in Procs : SaveFails(p) =>
          TargetKept(frame'[p], TablesNext, now')]_vars

\* What holds of a failed save whose tags can be serialized: the thread keeps
\* its states.
FailedSaveWithGoodTagsKeepsThread ==
    [][\A p \in Procs : (SaveFails(p) /\ EncodesTags(frame'[p].tags)) =>
          ThreadKept(frame'[p], TablesNext)]_vars

(* ---- C39 ---- *)

\* Task p calls save_agent_state of the manager: the step up to the raise of
\* a validation error or to the call of the store.
ManagerSaveBegins(p) ==
    /\ manager.call[p].stage # "store"
    /\ manager'.call[p].stage \in {"raised", "store"}
    /\ manager'.call[p].op = "save"
    /\ manager'.call[p] # manager.call[p]

\* The incoming data lacks a field the schema of the agent requires.
OmitsRequired(m, c) ==
    /\ m.schema_registered
    /\ c.agent = SchemaAgent
    /\ AgentRequired \ DOMAIN c.data # {}

\* The state stored under the key of the call holds every required field.
StoredHasRequired(B, c) ==
    LET k == generate_state_key(c.thread, c.agent)
    IN /\ k \in DOMAIN B.storage
       /\ IsContainer(B.storage[k])
       /\ AgentRequired \subseteq DOMAIN B.storage[k].doc.data

\* Claim C39: a manager save whose incoming data omits a required field fails
\* with StorageError before the store is called and changes neither the
\* store nor the cache, whatever the stored state holds, also when the merge
\* of the incoming data into the stored state would satisfy the schema.
C39_IncomingDataValidatedBeforeMerge ==
    [][\A p \in Procs :
          (ManagerSaveBegins(p) /\ OmitsRequired(manager, manager'.call[p])) =>
             /\ manager'.call[p].stage = "raised"
             /\ manager'.call[p].err = "StorageError"
             /\ TablesNext = Tables
             /\ manager'.store = manager.store
             /\ manager'.metadata_cache = manager.metadata_cache
             /\ manager'.cache_expiry = manager.cache_expiry]_vars

\* A save of {"b": 2} for the agent with the schema has been rejected while
\* the store holds, under the key of the call, a state with the required
\* field "a".
C39_Witness ==
    /\ manager.call[1].stage = "raised"
    /\ manager.call[1].op = "save"
    /\ manager.call[1].err = "StorageError"
    /\ manager.call[1].data = [b |-> PyInt(2)]
    /\ validate_thread_id(manager.call[1].thread)
    /\ OmitsRequired(manager, manager.call[1])
    /\ StoredHasRequired(Tables, manager.call[1])

====
